---- MODULE Spec2Model ----
(***************************************************************************)
(* Jewelry admin panel: the Rate Fetcher (scrapeIBJARates and its one-entry *)
(* cache) and the request layer (sessions, directory store, catalog        *)
(* connector), as state machines translated from the TypeScript sources.   *)
(*                                                                         *)
(* Every handler of registerRoutes is an operator from the state and the   *)
(* request to an outcome: the status, the body, the state it leaves and    *)
(* the store operations and connections it makes, in order.  An action     *)
(* serves one request: it installs the outcome.                            *)
(*                                                                         *)
(* Four specifications share the variables:                                *)
(*   SpecRates   - concurrent calls of scrapeIBJARates                     *)
(*   SpecAuth    - signup, login, logout, me, from an empty store          *)
(*   Spec        - login and the shop routes, on a store that holds two    *)
(*                 administrators                                          *)
(*   SpecCatalog - login, the analytics and the catalog routes, on a store *)
(*                 that holds a shop of each of them                       *)
(* The directory store outlives the process and the session directory does *)
(* not: the last two start as a process does on a store earlier runs left. *)
(***************************************************************************)
EXTENDS Integers, Sequences, FiniteSets, TLC

VARIABLES
    now,            \* the wall clock read by new Date(), in milliseconds
    cachedRates,    \* part_006:364  None or Some(IBJARates)
    lastFetchTime,  \* part_006:365  None or Some(time)
    ratePc,         \* per caller: "idle", or "fetching" (suspended at await fetch)
    rateEvt,        \* observation of the last scrapeIBJARates step
    lastRet,        \* the value the most recent return of scrapeIBJARates gave
    users,          \* directory store, collection "users": a set of documents
    shops,          \* directory store, collection "shops": a set of documents
    nextShop,       \* documents inserted in "shops" so far
    sessions,       \* routes.ts:17  sessionId -> userId
    nextToken,      \* randomUUID() calls so far
    products,       \* external stores: connection string -> "products" documents
    nextProduct,    \* documents inserted in the external stores so far
    failing,        \* the collections whose operations fail at present
    clients,        \* the external-store clients opened and not closed
    emailIndex,     \* whether the unique index on users.email was created
    signups,        \* per signup request in flight: where its handler stands
    resp,           \* the last request served: route, caller, target, status
    hist            \* tokens handed out and tokens logged out, read off the responses

rateVars == <<cachedRates, lastFetchTime, ratePc, rateEvt, lastRet>>
serverVars == <<users, shops, nextShop, sessions, nextToken, products, nextProduct,
                failing, clients, emailIndex, signups, resp, hist>>

(***************************************************************************)
(* Bounds                                                                  *)
(***************************************************************************)
MaxHours == 1          \* the clock runs up to MaxHours * CACHE_DURATION
MaxItems == 2          \* list items on a fetched page
MaxTokens == 2         \* sessions created
MaxShops == 1          \* shops created
MaxProducts == 1       \* products created
MaxQuery == 3          \* pieces of a connection string's query
MaxClients == 1        \* calls of connectToShopDB on its own

(***************************************************************************)
(* Optional values: null is the empty sequence, a value v is <<v>>.        *)
(***************************************************************************)
None == <<>>
Some(v) == <<v>>

(***************************************************************************)
(* JavaScript numbers.  Every number the fetcher computes is a non-negative *)
(* integer or NaN; NaN is encoded as -1, a value no parse of digits yields, *)
(* and the arithmetic below propagates it as IEEE arithmetic does.         *)
(***************************************************************************)
NaN == 0 - 1

JsTimes(a, k) == IF a = NaN THEN NaN ELSE a * k

\* Math.round(a * 0.0126 * 1000).  a * 12.6 has a fractional part in
\* {0, .2, .4, .6, .8}, never .5, so the double-precision product rounds to the
\* same integer as the exact one for every a below 2^40.
SilverRoundedPerGram(a) == IF a = NaN THEN NaN ELSE ((a * 126 + 5000) \div 10000) * 1000

SilverPerKg(a) == IF a = NaN THEN NaN ELSE (a * 126 + 5) \div 10

(***************************************************************************)
(* part_006:405  parseInt(match[1].replace(/,/g, ""))                      *)
(* The captured text is a sequence of characters from [0-9,].              *)
(***************************************************************************)
DigitVal(c) ==
    CASE c = "0" -> 0 [] c = "1" -> 1 [] c = "2" -> 2 [] c = "3" -> 3
      [] c = "4" -> 4 [] c = "5" -> 5 [] c = "6" -> 6 [] c = "7" -> 7
      [] c = "8" -> 8 [] c = "9" -> 9

RECURSIVE StripCommas(_)
StripCommas(s) ==
    IF s = <<>> THEN <<>>
    ELSE IF Head(s) = "," THEN StripCommas(Tail(s))
    ELSE <<Head(s)>> \o StripCommas(Tail(s))

RECURSIVE DigitsValue(_, _)
DigitsValue(s, acc) ==
    IF s = <<>> THEN acc ELSE DigitsValue(Tail(s), acc * 10 + DigitVal(Head(s)))

\* parseInt of a string of digits; parseInt("") is NaN
ParseInt(s) == IF s = <<>> THEN NaN ELSE DigitsValue(s, 0)

ParsePrice(text) == ParseInt(StripCommas(text))

(***************************************************************************)
(* part_006:426  n.toLocaleString("en-IN"): Indian grouping, the last three *)
(* digits and then groups of two ("12,34,560"); NaN prints as "NaN".       *)
(***************************************************************************)
Pad2(n) == IF n < 10 THEN "0" \o ToString(n) ELSE ToString(n)
Pad3(n) == IF n < 10 THEN "00" \o ToString(n)
           ELSE IF n < 100 THEN "0" \o ToString(n) ELSE ToString(n)

RECURSIVE GroupTwos(_)
GroupTwos(m) ==
    IF m < 100 THEN ToString(m)
    ELSE GroupTwos(m \div 100) \o "," \o Pad2(m % 100)

ToLocaleStringIN(n) ==
    IF n = NaN THEN "NaN"
    ELSE IF n < 1000 THEN ToString(n)
    ELSE GroupTwos(n \div 1000) \o "," \o Pad3(n % 1000)

Rupee(n) == "₹ " \o ToLocaleStringIN(n)

(***************************************************************************)
(* The fetched page.  A list item is abstracted to what the scan reads of  *)
(* it: which marker its text includes and the text captured by the first  *)
(* match of /₹\s*([\d,]+)/, or NoMatch.                                     *)
(***************************************************************************)
NoMatch == <<"no match">>
Markers == {"Fine Gold (999)", "22 KT"}
PriceTexts == { NoMatch,
                <<",">>,
                <<"7", ",", "0", "0", "0">>,
                <<"1", ",", "2", "3", ",", "4", "5", "6">> }
Items == [marker : Markers, price : PriceTexts]

RECURSIVE SeqsUpTo(_, _)
SeqsUpTo(S, n) ==
    IF n = 0 THEN {<<>>}
    ELSE LET shorter == SeqsUpTo(S, n - 1)
         IN  shorter \cup {Append(s, x) : s \in {t \in shorter : Len(t) = n - 1}, x \in S}

Pages == SeqsUpTo(Items, MaxItems)

\* what `await fetch(...)` resolves or rejects with
Responses == {[kind |-> "network error"], [kind |-> "not ok"]}
                \cup {[kind |-> "page", items |-> pg] : pg \in Pages}

\* part_006:399-413  the scan: the last item with a marker and a match wins
RECURSIVE ScanFor(_, _, _)
ScanFor(items, marker, acc) ==
    IF items = <<>> THEN acc
    ELSE LET it == Head(items)
         IN  ScanFor(Tail(items), marker,
                     IF it.marker = marker /\ it.price # NoMatch
                     THEN ParsePrice(it.price) ELSE acc)

gold24kPerGram(items) == ScanFor(items, "Fine Gold (999)", 0)
gold22kPerGram(items) == ScanFor(items, "22 KT", 0)

\* part_006:388-417  the conditions under which the try block throws
Throws(response) ==
    \/ response.kind = "network error"
    \/ response.kind = "not ok"
    \/ response.kind = "page" /\ ( \/ gold24kPerGram(response.items) = 0
                               \/ gold22kPerGram(response.items) = 0 )

\* part_006:419-430  the value written to the cache
FreshRates(items, t) ==
    [ gold_24k    |-> Rupee(JsTimes(gold24kPerGram(items), 10)),
      gold_22k    |-> Rupee(JsTimes(gold22kPerGram(items), 10)),
      silver      |-> Rupee(SilverPerKg(gold24kPerGram(items))),
      lastUpdated |-> t ]

\* part_006:443-448
Sentinel(t) ==
    [ gold_24k |-> "₹ N/A", gold_22k |-> "₹ N/A", silver |-> "₹ N/A",
      lastUpdated |-> t ]

CACHE_DURATION == 60 * 60 * 1000

CacheFreshInclusive ==
    /\ cachedRates # None
    /\ lastFetchTime # None
    /\ now - lastFetchTime[1] <= CACHE_DURATION

\* part_006:369-373
CacheFresh ==
    /\ cachedRates # None
    /\ lastFetchTime # None
    /\ now - lastFetchTime[1] < CACHE_DURATION

Callers == {"r1", "r2"}

NoEvt == [step |-> "none"]

(***************************************************************************)
(* scrapeIBJARates up to its first await: a cache hit returns at once,     *)
(* anything else issues the fetch and suspends.                            *)
(***************************************************************************)
scrapeIBJARates(p) ==
    /\ ratePc[p] = "idle"
    /\ IF CacheFresh
       THEN /\ rateEvt' = [step |-> "call", caller |-> p, fetched |-> FALSE,
                           ret |-> cachedRates]
            /\ lastRet' = cachedRates
            /\ UNCHANGED ratePc
       ELSE /\ rateEvt' = [step |-> "call", caller |-> p, fetched |-> TRUE,
                           ret |-> None]
            /\ ratePc' = [ratePc EXCEPT ![p] = "fetching"]
            /\ UNCHANGED lastRet
    /\ UNCHANGED <<now, cachedRates, lastFetchTime, serverVars>>

(***************************************************************************)
(* What a response carries, read off the response itself: the markers for  *)
(* which some list item holds a price, i.e. a captured text with a digit.  *)
(***************************************************************************)
HasDigit(text) == \E i \in 1..Len(text) : text[i] \notin {","}

PricedMarkers(response) ==
    IF response.kind # "page" THEN {}
    ELSE {m \in Markers :
            \E i \in 1..Len(response.items) :
                /\ response.items[i].marker = m
                /\ response.items[i].price # NoMatch
                /\ HasDigit(response.items[i].price)}

\* a variant that keeps the sentinel it answers a first failed fetch with
scrapeResumeCachesSentinel(p, response) ==
    /\ ratePc[p] = "fetching"
    /\ ratePc' = [ratePc EXCEPT ![p] = "idle"]
    /\ IF Throws(response)
       THEN /\ cachedRates' = IF cachedRates # None THEN cachedRates
                              ELSE Some(Sentinel(now))
            /\ lastFetchTime' = IF cachedRates # None THEN lastFetchTime
                                ELSE Some(now)
            /\ rateEvt' = [step |-> "resume", caller |-> p, kind |-> response.kind,
                           priced |-> PricedMarkers(response), g24 |-> 0, g22 |-> 0,
                           ret |-> cachedRates']
       ELSE /\ cachedRates' = Some(FreshRates(response.items, now))
            /\ lastFetchTime' = Some(now)
            /\ rateEvt' = [step |-> "resume", caller |-> p, kind |-> response.kind,
                           priced |-> PricedMarkers(response),
                           g24 |-> gold24kPerGram(response.items),
                           g22 |-> gold22kPerGram(response.items),
                           ret |-> cachedRates']
    /\ lastRet' = rateEvt'.ret
    /\ UNCHANGED <<now, serverVars>>

\* a variant that stamps the time on every success but keeps a value another
\* request has written meanwhile
scrapeResumeKeepsFresh(p, response) ==
    /\ ratePc[p] = "fetching"
    /\ ratePc' = [ratePc EXCEPT ![p] = "idle"]
    /\ IF Throws(response)
       THEN /\ UNCHANGED <<cachedRates, lastFetchTime>>
            /\ rateEvt' = [step |-> "resume", caller |-> p, kind |-> response.kind,
                           priced |-> PricedMarkers(response), g24 |-> 0, g22 |-> 0,
                           ret |-> IF cachedRates # None THEN cachedRates
                                   ELSE Some(Sentinel(now))]
       ELSE /\ cachedRates' = IF CacheFresh THEN cachedRates
                              ELSE Some(FreshRates(response.items, now))
            /\ lastFetchTime' = Some(now)
            /\ rateEvt' = [step |-> "resume", caller |-> p, kind |-> response.kind,
                           priced |-> PricedMarkers(response),
                           g24 |-> gold24kPerGram(response.items),
                           g22 |-> gold22kPerGram(response.items),
                           ret |-> cachedRates']
    /\ lastRet' = rateEvt'.ret
    /\ UNCHANGED <<now, serverVars>>

(***************************************************************************)
(* scrapeIBJARates from the await to its return, for one response.         *)
(***************************************************************************)
scrapeResume(p, response) ==
    /\ ratePc[p] = "fetching"
    /\ ratePc' = [ratePc EXCEPT ![p] = "idle"]
    /\ IF Throws(response)
       THEN /\ UNCHANGED <<cachedRates, lastFetchTime>>
            /\ rateEvt' = [step |-> "resume", caller |-> p, kind |-> response.kind,
                           priced |-> PricedMarkers(response), g24 |-> 0, g22 |-> 0,
                           ret |-> IF cachedRates # None THEN cachedRates
                                   ELSE Some(Sentinel(now))]
       ELSE /\ cachedRates' = Some(FreshRates(response.items, now))
            /\ lastFetchTime' = Some(now)
            /\ rateEvt' = [step |-> "resume", caller |-> p, kind |-> response.kind,
                           priced |-> PricedMarkers(response),
                           g24 |-> gold24kPerGram(response.items),
                           g22 |-> gold22kPerGram(response.items),
                           ret |-> cachedRates']
    /\ lastRet' = rateEvt'.ret
    /\ UNCHANGED <<now, serverVars>>

FetchReturns == \E p \in Callers, response \in Responses : scrapeResume(p, response)

RatesRequest == \E p \in Callers : scrapeIBJARates(p)

\* time passes: to just before, or exactly to, the next cache expiry
TickSteps == {CACHE_DURATION - 1, CACHE_DURATION}

TickRates ==
    /\ \E d \in TickSteps :
         /\ now + d <= MaxHours * CACHE_DURATION
         /\ now' = now + d
    /\ UNCHANGED <<rateVars, serverVars>>

NextRates == RatesRequest \/ FetchReturns \/ TickRates

vars == <<now, rateVars, serverVars>>

(***************************************************************************)
(***************************************************************************)
(* The request layer: registerRoutes, MongoDBStorage and the catalog        *)
(* connector.  Every handler is a pure operator from the current state and  *)
(* the request to an outcome (status, body, new stores, store operations);  *)
(* the action of a route applies the outcome of one request.                *)
(***************************************************************************)
(***************************************************************************)

\* ---- identifiers ----------------------------------------------------------
\* new ObjectId() of the n-th document inserted in a collection: 24 hex digits
Oid(prefix, n) == prefix \o "00000000000000000000" \o Pad2(n)
UserOid(n) == Oid("aa", n)
ShopOid(n) == Oid("bb", n)
ProductOid(n) == Oid("cc", n)

\* the n-th randomUUID()
Uuid(n) == "uuid-" \o ToString(n)

MalformedId == "not-an-objectid"
\* routes.ts:158  .slice(0, 5)
RecentLimit == 5
ObjectIdStrings ==
    {UserOid(n) : n \in 0..2} \cup {ShopOid(n) : n \in 0..(MaxShops + RecentLimit + 2)}
        \cup {ProductOid(n) : n \in 0..MaxProducts}

\* a variant that takes any string for an id
stringToObjectIdLenient(id) == FALSE
\* part_006:351-353  new ObjectId(id) throws unless id is 24 hex digits
stringToObjectIdThrows(id) == id \notin ObjectIdStrings

\* ---- request inputs -------------------------------------------------------
Emails == {"a@x.com", "b@x.com"}
Unregistered == "c@x.com"     \* an address nobody signs up with
BadEmail == "not-an-email"
\* part_000:6  z.string().email()
IsEmail(e) == e \in Emails \cup {Unregistered}

Passwords == {"secret1", "secret2"}
\* routes.ts:51,87  bcrypt.hash / bcrypt.compare (the salt is left out)
Hash(pw) == "bcrypt:" \o pw
Compare(pw, hashed) == hashed = Hash(pw)

\* a connection string: its prefix through the first "://", and what follows
\* a connection string is the sequence of its pieces: each "/" and each "?"
\* is a piece of its own, and so is each longest run of other characters
Separators == {"/", "?"}
WellFormed(uri) ==
    \A i \in 1..(Len(uri) - 1) : uri[i] \in Separators \/ uri[i + 1] \in Separators
Mongo == <<"mongodb:", "/", "/">>
MongoSrv == <<"mongodb+srv:", "/", "/">>
U1 == Mongo \o <<"host1", "/", "shopdb">>
U2 == MongoSrv \o <<"host2", "/", "jewels", "?", "retryWrites=true">>
BadUri == <<"http:", "/", "/", "host3", "/", "shopdb">>
BadUris == { BadUri,
             <<"mongodb:", "/", "host3", "/", "shopdb">>,
             <<" mongodb:", "/", "/", "host3", "/", "shopdb">>,
             <<"MONGODB:", "/", "/", "host3", "/", "shopdb">>,
             <<"mongodb+srv", "/", "/", "host3">>,
             <<>> }
StoreUris == {U1, U2}
\* a valid string for the database otherdb of host1, with a path in its query
SlashInQuery == Mongo \o <<"host1", "/", "otherdb", "?", "tlsCAFile=", "/", "certs", "/", "shopdb">>
\* part_006:285  ADMIN_MONGODB_URI, the directory store
DirectoryUri == Mongo \o <<"adminhost", "/", "jewelry_admin_panel">>
Stores == {DirectoryUri} \cup StoreUris
\* what can fail: the directory store, and in an external store the
\* operations on products or those on categories
Collections == {"products", "categories"}
Fault(store, coll) == [store |-> store, coll |-> coll]
Faults == {Fault(DirectoryUri, "directory")} \cup {Fault(u, c) : u \in StoreUris, c \in Collections}
\* the stores of S out of reach: everything in them fails
Down(S) == {f \in Faults : f.store \in S}

\* String.prototype.startsWith
StartsWith(s, prefix) ==
    Len(s) >= Len(prefix) /\ SubSeq(s, 1, Len(prefix)) = prefix

AnyScheme(uri) == TRUE

\* part_000:28-31  uri.startsWith('mongodb://') || uri.startsWith('mongodb+srv://')
ValidMongoUri(uri) == StartsWith(uri, Mongo) \/ StartsWith(uri, MongoSrv)

SignupBodies == [email : Emails \cup {BadEmail}, password : {"secret1"}, name : {"Asha"}]
LoginBodies == [email : Emails \cup {Unregistered, BadEmail}, password : Passwords]
ShopBodies == [name : {"Shop"}, mongodbUri : {U1, BadUri}]
\* a body that names fields the update schema does not have
Takeover == [name |-> "Renamed", _id |-> "000000000000000000000000",
             ownerId |-> "ffffffffffffffffffffffff", createdAt |-> 99, updatedAt |-> 99]
ShopUpdateBodies == {[mongodbUri |-> U2], [mongodbUri |-> BadUri], Takeover}
JNum(n) == [num |-> n]
JStr(s) == [str |-> s]
Ring == [name |-> "Ring", description |-> "plain", price |-> JNum(100),
         imageUrl |-> "ring.png", category |-> "rings"]
\* every optional field set to a value JavaScript treats as false
AllFalsy == [tags |-> <<>>, featured |-> FALSE, inStock |-> FALSE, displayOrder |-> 0] @@ Ring
\* some optional fields set to such a value, some not
Chain == [category |-> "chains", tags |-> <<"gold">>, featured |-> TRUE,
          inStock |-> FALSE, displayOrder |-> 0] @@ Ring
\* the bodies posted: the required fields only, no price, optional fields set
ProductBodies == {Ring, [f \in DOMAIN Ring \ {"price"} |-> Ring[f]], Chain}
ProductUpdateBodies ==
    { [price |-> JNum(90)], [price |-> JStr("free")],
      [price |-> JNum(90), category |-> "chains", featured |-> TRUE, inStock |-> FALSE] }

\* part_000:12  insertUserSchema
ValidInsertUser(b) == IsEmail(b.email)
\* part_000:13-16  loginSchema
ValidLogin(b) == IsEmail(b.email)
\* part_000:41  insertShopSchema
ValidInsertShop(b) == ValidMongoUri(b.mongodbUri)
\* part_000:42  updateShopSchema: every field optional
ValidUpdateShop(b) == "mongodbUri" \in DOMAIN b => ValidMongoUri(b.mongodbUri)
\* part_000:41  the keys of insertShopSchema
InsertShopKeys == {"name", "imageUrl", "mongodbUri", "description", "address",
                   "phone", "email", "website"}
\* a variant that keeps the keys the schema does not know (z.object passthrough)
ParseUpdateShopPassthrough(b) == b
\* part_000:42  updateShopSchema.parse: a z.object drops the keys it does not know
ParseUpdateShop(b) == [f \in DOMAIN b \cap InsertShopKeys |-> b[f]]
\* part_000:60-83  insertProductSchema: name, description, price, imageUrl and
\* category required
ValidInsertProduct(b) ==
    /\ {"name", "description", "price", "imageUrl", "category"} \subseteq DOMAIN b
    /\ "num" \in DOMAIN b.price
\* part_000:84  updateProductSchema: every field optional
ValidUpdateProduct(b) == "price" \in DOMAIN b => "num" \in DOMAIN b.price

\* part_000:68-71  the defaults insertProductSchema.parse fills in
ProductDefaults == [tags |-> <<>>, featured |-> FALSE, inStock |-> TRUE, displayOrder |-> 0]
ParseNoDefaults(b) == b
ParseUpdateWithDefaults(b) == b @@ ProductDefaults

\* part_000:84  updateProductSchema.parse: a field the body leaves out stays
\* out, its default is not filled in
ParseUpdateProduct(b) == b

ParseInsertProduct(b) == b @@ ProductDefaults

\* ---- the stores -----------------------------------------------------------
\* the categories collection of each external store (never written by the panel)
shopCategories(uri) ==
    IF uri = U1 THEN {[_id |-> "dd0000000000000000000001", name |-> "Rings"],
                      [_id |-> "dd0000000000000000000002", name |-> "Chains"]}
    ELSE {[_id |-> "dd0000000000000000000003", name |-> "Rings"]}

St == [users |-> users, sessions |-> sessions, nextToken |-> nextToken,
       shops |-> shops, nextShop |-> nextShop,
       products |-> products, nextProduct |-> nextProduct]

Out(status, body, st, ops) == [status |-> status, body |-> body, st |-> st, io |-> ops]
Msg(m) == [message |-> m]

\* part_006:51-61
getUserByEmail(email) ==
    LET found == {u \in users : u.email = email}
    IN  IF found = {} THEN None ELSE Some(CHOOSE u \in found : TRUE)

getUserFirst(id) ==
    IF users = {} THEN None ELSE Some(CHOOSE u \in users : u._id = UserOid(1))

\* part_006:37-49
getUser(id) ==
    LET found == {u \in users : u._id = id}
    IN  IF found = {} THEN None ELSE Some(CHOOSE u \in found : TRUE)

\* part_006:315  createIndex({email: 1}, {unique: true}): where the index
\* exists, insertOne throws on an email some document has
createUserThrows(user) == emailIndex /\ \E u \in users : u.email = user.email

\* part_006:63-74
createUser(user) == user @@ [_id |-> UserOid(Cardinality(users) + 1)]

getShopAnyOwner(id, ownerId) ==
    LET found == {s \in shops : s._id = id}
    IN  IF found = {} THEN None ELSE Some(CHOOSE s \in found : TRUE)

\* part_006:92-105  findOne({_id, ownerId})
getShop(id, ownerId) ==
    LET found == {s \in shops : s._id = id /\ s.ownerId = ownerId}
    IN  IF found = {} THEN None ELSE Some(CHOOSE s \in found : TRUE)

\* part_006:77-90  find({ownerId}).sort({createdAt: -1}); ties in store order
RECURSIVE NewestFirst(_)
NewestFirst(S) ==
    IF S = {} THEN <<>>
    ELSE LET m == CHOOSE s \in S : \A t \in S : s.createdAt >= t.createdAt
         IN  <<m>> \o NewestFirst(S \ {m})

getAllShops(ownerId) == NewestFirst({s \in shops : s.ownerId = ownerId})

createShopTouched(shop, ownerId) ==
    shop @@ [_id |-> ShopOid(nextShop + 1), ownerId |-> ownerId,
             createdAt |-> now, updatedAt |-> now + 1]

\* part_006:107-123
createShop(shop, ownerId) ==
    shop @@ [_id |-> ShopOid(nextShop + 1), ownerId |-> ownerId,
             createdAt |-> now, updatedAt |-> now]

\* part_006:125-141  findOneAndUpdate({_id, ownerId}, {$set: {...shop, updatedAt}})
updateShop(id, shop, ownerId) ==
    LET found == {s \in shops : s._id = id /\ s.ownerId = ownerId}
    IN  IF found = {} THEN None
        ELSE Some([updatedAt |-> now] @@ shop @@ (CHOOSE s \in found : TRUE))

deleteShopAnyOwner(id, ownerId) == \E s \in shops : s._id = id

\* part_006:143-149  deleteOne({_id, ownerId}); deletedCount > 0
deleteShop(id, ownerId) == \E s \in shops : s._id = id /\ s.ownerId = ownerId

\* an operation on the directory store rejects (part_006:51-149: no method
\* catches), so does one on an external store (part_006:178-264)
DirectoryFails == Fault(DirectoryUri, "directory") \in failing
StoreFails(uri) == Fault(uri, "products") \in failing
CategoriesFail(uri) == Fault(uri, "categories") \in failing

\* the io events of a request, in order
ShopLookup(id, ownerId, result) ==
    [op |-> "shops.findOne", id |-> id, ownerId |-> ownerId, result |-> result]
ShopList(ownerId, result) ==
    [op |-> "shops.find", ownerId |-> ownerId, result |-> result]
ShopWrite(kind, id, ownerId) ==
    [op |-> kind, id |-> id, ownerId |-> ownerId]
UserOp(kind, key) == [op |-> kind, key |-> key]
\* part_006:153-175  connectToShopDB
Connect(uri, coll) == [op |-> "connectToShopDB", uri |-> uri, coll |-> coll]

\* ---- requireAuth ----------------------------------------------------------
\* the Authorization header: None when missing, else Some(sessionId), the
\* header with "Bearer " removed
requireAuthAcceptsAll(auth) ==
    IF auth = None \/ auth[1] \notin DOMAIN sessions THEN Some(UserOid(1))
    ELSE Some(sessions[auth[1]])

\* routes.ts:30-37  None for the 401 answer, else Some(req.userId)
requireAuth(auth) ==
    IF auth = None THEN None
    ELSE IF auth[1] = "" \/ auth[1] \notin DOMAIN sessions THEN None
    ELSE Some(sessions[auth[1]])

Unauthorized == Out(401, Msg("Unauthorized"), St, <<>>)

\* ---- authentication routes ------------------------------------------------
PublicUser(u) == [_id |-> u._id, email |-> u.email, name |-> u.name]

\* routes.ts:49-70  from bcrypt.hash on; the catch of 71-73 for a failed insert
SignupInsert(body) ==
    LET hashed == [body EXCEPT !.password = Hash(body.password)]
        user == createUser(hashed)
        sessionId == Uuid(nextToken + 1)
        insert == UserOp("users.insertOne", body.email)
    IN  IF createUserThrows(hashed)
        THEN Out(400, Msg("Invalid signup data"), St, <<insert>>)
        ELSE Out(201, [sessionId |-> sessionId, user |-> PublicUser(user)],
                 [St EXCEPT !.users = users \cup {user},
                            !.sessions = (sessionId :> user._id) @@ sessions,
                            !.nextToken = nextToken + 1],
                 <<insert>>)

\* routes.ts:41-47  None when the handler goes on to the insert
SignupCheck(body) ==
    IF ~ValidInsertUser(body) THEN Some(Out(400, Msg("Invalid signup data"), St, <<>>))
    ELSE IF getUserByEmail(body.email) # None
    THEN Some(Out(400, Msg("User already exists"), St,
                  <<UserOp("users.findOne", body.email)>>))
    ELSE None

\* routes.ts:40-74  with no other request between its awaits
PostSignup(body) ==
    IF SignupCheck(body) # None THEN SignupCheck(body)[1]
    ELSE LET o == SignupInsert(body)
         IN  [o EXCEPT !.io = <<UserOp("users.findOne", body.email)>> \o @]

\* routes.ts:76-107
PostLogin(body) ==
    IF ~ValidLogin(body) THEN Out(400, Msg("Invalid login data"), St, <<>>)
    ELSE
    LET user == getUserByEmail(body.email)
        find == UserOp("users.findOne", body.email)
    IN  IF user = None
        THEN Out(401, Msg("Invalid credentials"), St, <<find>>)
        ELSE IF ~Compare(body.password, user[1].password)
        THEN Out(401, Msg("Invalid credentials"), St, <<find>>)
        ELSE LET sessionId == Uuid(nextToken + 1)
             IN  Out(200, [sessionId |-> sessionId, user |-> PublicUser(user[1])],
                     [St EXCEPT !.sessions = (sessionId :> user[1]._id) @@ sessions,
                                !.nextToken = nextToken + 1],
                     <<find>>)

LogoutKeepsSession(auth) ==
    IF requireAuth(auth) = None THEN Unauthorized
    ELSE Out(200, Msg("Logged out successfully"), St, <<>>)

\* a variant that ends every session of the administrator who logs out
PostLogoutEverywhere(auth) ==
    IF requireAuth(auth) = None THEN Unauthorized
    ELSE Out(200, Msg("Logged out successfully"),
             [St EXCEPT !.sessions =
                 [t \in {u \in DOMAIN sessions : sessions[u] # sessions[auth[1]]}
                     |-> sessions[t]]],
             <<>>)

\* routes.ts:109-115
PostLogout(auth) ==
    IF requireAuth(auth) = None THEN Unauthorized
    ELSE Out(200, Msg("Logged out successfully"),
             [St EXCEPT !.sessions =
                 [t \in DOMAIN sessions \ {auth[1]} |-> sessions[t]]],
             <<>>)

\* routes.ts:117-131
GetMe(auth) ==
    LET who == requireAuth(auth)
    IN  IF who = None THEN Unauthorized
        ELSE IF stringToObjectIdThrows(who[1])
        THEN Out(500, Msg("Failed to fetch user"), St, <<>>)
        ELSE LET user == getUser(who[1])
                 find == UserOp("users.findOne", who[1])
             IN  IF user = None
                 THEN Out(404, Msg("User not found"), St, <<find>>)
                 ELSE Out(200, PublicUser(user[1]), St, <<find>>)

\* ---- shop routes ----------------------------------------------------------
\* routes.ts:175-182
GetShops(auth) ==
    LET who == requireAuth(auth)
    IN  IF who = None THEN Unauthorized
        ELSE IF DirectoryFails THEN Out(500, Msg("Failed to fetch shops"), St, <<>>)
        ELSE LET list == getAllShops(who[1])
             IN  Out(200, list, St, <<ShopList(who[1], list)>>)

\* routes.ts:184-194
GetShop(auth, id) ==
    LET who == requireAuth(auth)
    IN  IF who = None THEN Unauthorized
        ELSE IF stringToObjectIdThrows(id) \/ DirectoryFails
        THEN Out(500, Msg("Failed to fetch shop"), St, <<>>)
        ELSE LET shop == getShop(id, who[1])
                 ops == <<ShopLookup(id, who[1], shop)>>
             IN  IF shop = None THEN Out(404, Msg("Shop not found"), St, ops)
                 ELSE Out(200, shop[1], St, ops)

\* a variant that stores the shop before it validates the body
PostShopsStoresFirst(auth, body) ==
    LET who == requireAuth(auth)
    IN  IF who = None THEN Unauthorized
        ELSE LET shop == createShop(body, who[1])
                 stored == [St EXCEPT !.shops = shops \cup {shop}, !.nextShop = nextShop + 1]
                 ops == <<ShopWrite("shops.insertOne", shop._id, who[1])>>
             IN  IF ~ValidInsertShop(body) \/ DirectoryFails
                 THEN Out(400, Msg("Invalid shop data"), stored, ops)
                 ELSE Out(201, shop, stored, ops)

\* routes.ts:196-204
PostShops(auth, body) ==
    LET who == requireAuth(auth)
    IN  IF who = None THEN Unauthorized
        ELSE IF ~ValidInsertShop(body) \/ DirectoryFails
        THEN Out(400, Msg("Invalid shop data"), St, <<>>)
        ELSE LET shop == createShop(body, who[1])
             IN  Out(201, shop,
                     [St EXCEPT !.shops = shops \cup {shop}, !.nextShop = nextShop + 1],
                     <<ShopWrite("shops.insertOne", shop._id, who[1])>>)

\* routes.ts:206-217
PutShop(auth, id, body) ==
    LET who == requireAuth(auth)
    IN  IF who = None THEN Unauthorized
        ELSE IF ~ValidUpdateShop(body) \/ stringToObjectIdThrows(id) \/ DirectoryFails
        THEN Out(400, Msg("Invalid shop data"), St, <<>>)
        ELSE LET shop == updateShop(id, ParseUpdateShop(body), who[1])
                 ops == <<ShopWrite("shops.findOneAndUpdate", id, who[1])>>
             IN  IF shop = None THEN Out(404, Msg("Shop not found"), St, ops)
                 ELSE Out(200, shop[1],
                          [St EXCEPT !.shops = {s \in shops : s._id # id} \cup {shop[1]}],
                          ops)

\* routes.ts:219-229
DeleteShop(auth, id) ==
    LET who == requireAuth(auth)
    IN  IF who = None THEN Unauthorized
        ELSE IF stringToObjectIdThrows(id) \/ DirectoryFails
        THEN Out(500, Msg("Failed to delete shop"), St, <<>>)
        ELSE LET success == deleteShop(id, who[1])
                 ops == <<ShopWrite("shops.deleteOne", id, who[1])>>
             IN  IF ~success THEN Out(404, Msg("Shop not found"), St, ops)
                 ELSE Out(200, Msg("Shop deleted successfully"),
                          [St EXCEPT !.shops = {s \in shops : s._id # id}], ops)

\* ---- the catalog connector ------------------------------------------------
\* String.prototype.trim() === ''
Blank(str) == str \in {"", " ", "  "}

\* part_006:159-160  mongoUri.split('/') and its last element
lastPart(mongoUri) ==
    LET slashes == {i \in DOMAIN mongoUri : mongoUri[i] = "/"}
        last == IF slashes = {} THEN 0 ELSE CHOOSE i \in slashes : \A j \in slashes : j <= i
    IN  SubSeq(mongoUri, last + 1, Len(mongoUri))

\* part_006:161  lastPart?.split('?')[0] || ''
beforeQuery(part) ==
    LET marks == {i \in DOMAIN part : part[i] = "?"}
        first == IF marks = {} THEN Len(part) + 1
                 ELSE CHOOSE i \in marks : \A j \in marks : i <= j
        head == SubSeq(part, 1, first - 1)
    IN  IF head = <<>> THEN "" ELSE head[1]

\* part_006:153-175  the client is connected and handed out inside the Db;
\* nothing closes it
connectToShopDB(mongoUri) ==
    LET dbName == beforeQuery(lastPart(mongoUri))
    IN  [uri |-> mongoUri, db |-> IF dbName = "" \/ Blank(dbName) THEN "test" ELSE dbName]

\* the clients a handler's connector calls opened
Opened(ops) ==
    {connectToShopDB(ops[i].uri) : i \in {j \in DOMAIN ops : ops[j].op = "connectToShopDB"}}

\* part_006:154-174  the store the returned Db operates on: the database of
\* the resolved name on the host of the string; products, categories and
\* failures are kept per store, under the connection string that names it
StoreOf(mongoUri) ==
    LET same == {u \in StoreUris :
                    /\ Len(mongoUri) >= 4 /\ u[4] = mongoUri[4]
                    /\ connectToShopDB(u).db = connectToShopDB(mongoUri).db}
    IN  IF same = {} THEN mongoUri ELSE CHOOSE u \in same : TRUE

\* each returns [ops, threw, result]: the connection it opens, whether the id
\* conversion threw, and what it returns

\* part_006:178-190
getShopCategories(uri) ==
    [ops |-> <<Connect(uri, "categories")>>, threw |-> CategoriesFail(StoreOf(uri)),
     result |-> shopCategories(StoreOf(uri))]

\* part_006:193-207  category && category !== "all" ? {category} : {}
getShopProductsNoFilter(uri, category) ==
    [ops |-> <<Connect(uri, "products")>>, threw |-> StoreFails(StoreOf(uri)), result |-> products[StoreOf(uri)]]

getShopProducts(uri, category) ==
    [ops |-> <<Connect(uri, "products")>>, threw |-> StoreFails(StoreOf(uri)),
     result |-> IF category # None /\ category[1] # "" /\ category[1] # "all"
                THEN {p \in products[StoreOf(uri)] : p.category = category[1]}
                ELSE products[StoreOf(uri)]]

\* part_006:210-222
getShopProductById(uri, productId) ==
    IF stringToObjectIdThrows(productId) \/ StoreFails(StoreOf(uri))
    THEN [ops |-> <<Connect(uri, "products")>>, threw |-> TRUE, result |-> None]
    ELSE LET found == {p \in products[StoreOf(uri)] : p._id = productId}
         IN  [ops |-> <<Connect(uri, "products")>>, threw |-> FALSE,
              result |-> IF found = {} THEN None ELSE Some(CHOOSE p \in found : TRUE)]

\* part_006:225-239  the stored document
storedProduct(product) ==
    [_id |-> ProductOid(nextProduct + 1),
     tags |-> IF "tags" \in DOMAIN product THEN product.tags ELSE <<>>,
     featured |-> IF "featured" \in DOMAIN product THEN product.featured ELSE FALSE,
     inStock |-> IF "inStock" \in DOMAIN product THEN product.inStock # FALSE ELSE TRUE,
     displayOrder |-> IF "displayOrder" \in DOMAIN product THEN product.displayOrder ELSE 0]
        @@ product

createShopProduct(uri, product) ==
    [ops |-> <<Connect(uri, "products")>>, threw |-> StoreFails(StoreOf(uri)),
     stored |-> storedProduct(product),
     result |-> [_id |-> ProductOid(nextProduct + 1)] @@ product]

\* part_006:242-257  findOneAndUpdate({_id}, {$set: product})
updateShopProduct(uri, productId, product) ==
    IF stringToObjectIdThrows(productId) \/ StoreFails(StoreOf(uri))
    THEN [ops |-> <<Connect(uri, "products")>>, threw |-> TRUE, result |-> None]
    ELSE LET found == {p \in products[StoreOf(uri)] : p._id = productId}
         IN  [ops |-> <<Connect(uri, "products")>>, threw |-> FALSE,
              result |-> IF found = {} THEN None
                         ELSE Some(product @@ (CHOOSE p \in found : TRUE))]

\* part_006:260-264
deleteShopProduct(uri, productId) ==
    IF stringToObjectIdThrows(productId) \/ StoreFails(StoreOf(uri))
    THEN [ops |-> <<Connect(uri, "products")>>, threw |-> TRUE, result |-> FALSE]
    ELSE [ops |-> <<Connect(uri, "products")>>, threw |-> FALSE,
          result |-> \E p \in products[StoreOf(uri)] : p._id = productId]

\* ---- catalog routes -------------------------------------------------------
\* the first lines of every catalog handler: requireAuth, then getShop;
\* [done |-> TRUE, out] when the handler has answered, else the shop found
ResolveShopNoOwnerCheck(auth, id, catchStatus, catchMsg) ==
    LET who == requireAuth(auth)
    IN  IF who = None THEN [done |-> TRUE, out |-> Unauthorized]
        ELSE IF stringToObjectIdThrows(id) \/ DirectoryFails
        THEN [done |-> TRUE, out |-> Out(catchStatus, Msg(catchMsg), St, <<>>)]
        ELSE LET shop == getShopAnyOwner(id, who[1])
                 ops == <<ShopLookup(id, who[1], shop)>>
             IN  IF shop = None
                 THEN [done |-> TRUE, out |-> Out(404, Msg("Shop not found"), St, ops)]
                 ELSE [done |-> FALSE, shop |-> shop[1], ops |-> ops]

\* routes.ts:234-237 (and 248-251, 263-266, 280-283, 295-298, 313-316)
ResolveShop(auth, id, catchStatus, catchMsg) ==
    LET who == requireAuth(auth)
    IN  IF who = None THEN [done |-> TRUE, out |-> Unauthorized]
        ELSE IF stringToObjectIdThrows(id) \/ DirectoryFails
        THEN [done |-> TRUE, out |-> Out(catchStatus, Msg(catchMsg), St, <<>>)]
        ELSE LET shop == getShop(id, who[1])
                 ops == <<ShopLookup(id, who[1], shop)>>
             IN  IF shop = None
                 THEN [done |-> TRUE, out |-> Out(404, Msg("Shop not found"), St, ops)]
                 ELSE [done |-> FALSE, shop |-> shop[1], ops |-> ops]

\* routes.ts:232-244
GetCategories(auth, id) ==
    LET r == ResolveShop(auth, id, 500, "Failed to fetch categories")
    IN  IF r.done THEN r.out
        ELSE LET c == getShopCategories(r.shop.mongodbUri)
             IN  IF c.threw
                 THEN Out(500, Msg("Failed to fetch categories"), St, r.ops \o c.ops)
                 ELSE Out(200, c.result, St, r.ops \o c.ops)

\* routes.ts:246-259
GetProducts(auth, id, category) ==
    LET r == ResolveShop(auth, id, 500, "Failed to fetch products")
    IN  IF r.done THEN r.out
        ELSE LET c == getShopProducts(r.shop.mongodbUri, category)
             IN  IF c.threw
                 THEN Out(500, Msg("Failed to fetch products"), St, r.ops \o c.ops)
                 ELSE Out(200, c.result, St, r.ops \o c.ops)

\* routes.ts:261-276
GetProduct(auth, id, productId) ==
    LET r == ResolveShop(auth, id, 500, "Failed to fetch product")
    IN  IF r.done THEN r.out
        ELSE LET c == getShopProductById(r.shop.mongodbUri, productId)
             IN  IF c.threw THEN Out(500, Msg("Failed to fetch product"), St, r.ops \o c.ops)
                 ELSE IF c.result = None
                 THEN Out(404, Msg("Product not found"), St, r.ops \o c.ops)
                 ELSE Out(200, c.result[1], St, r.ops \o c.ops)

\* routes.ts:278-291
PostProduct(auth, id, body) ==
    LET r == ResolveShop(auth, id, 400, "Invalid product data")
    IN  IF r.done THEN r.out
        ELSE IF ~ValidInsertProduct(body)
        THEN Out(400, Msg("Invalid product data"), St, r.ops)
        ELSE LET uri == r.shop.mongodbUri
                 c == createShopProduct(uri, ParseInsertProduct(body))
             IN  IF c.threw THEN Out(400, Msg("Invalid product data"), St, r.ops \o c.ops)
                 ELSE Out(201, c.result,
                          [St EXCEPT !.products = [products EXCEPT ![StoreOf(uri)] = @ \cup {c.stored}],
                                     !.nextProduct = nextProduct + 1],
                          r.ops \o c.ops)

\* routes.ts:293-309
PutProduct(auth, id, productId, body) ==
    LET r == ResolveShop(auth, id, 400, "Invalid product data")
    IN  IF r.done THEN r.out
        ELSE IF ~ValidUpdateProduct(body)
        THEN Out(400, Msg("Invalid product data"), St, r.ops)
        ELSE LET uri == r.shop.mongodbUri
                 c == updateShopProduct(uri, productId, ParseUpdateProduct(body))
             IN  IF c.threw THEN Out(400, Msg("Invalid product data"), St, r.ops \o c.ops)
                 ELSE IF c.result = None
                 THEN Out(404, Msg("Product not found"), St, r.ops \o c.ops)
                 ELSE Out(200, c.result[1],
                          [St EXCEPT !.products = [products EXCEPT ![StoreOf(uri)] =
                              {p \in @ : p._id # productId} \cup {c.result[1]}]],
                          r.ops \o c.ops)

\* routes.ts:311-326
DeleteProduct(auth, id, productId) ==
    LET r == ResolveShop(auth, id, 500, "Failed to delete product")
    IN  IF r.done THEN r.out
        ELSE LET uri == r.shop.mongodbUri
                 c == deleteShopProduct(uri, productId)
             IN  IF c.threw THEN Out(500, Msg("Failed to delete product"), St, r.ops \o c.ops)
                 ELSE IF ~c.result
                 THEN Out(404, Msg("Product not found"), St, r.ops \o c.ops)
                 ELSE Out(200, Msg("Product deleted successfully"),
                          [St EXCEPT !.products = [products EXCEPT ![StoreOf(uri)] =
                              {p \in @ : p._id # productId}]],
                          r.ops \o c.ops)

\* ---- analytics ------------------------------------------------------------
\* routes.ts:143-154  the loop over the caller's shops
RECURSIVE AnalyticsLoopAborting(_, _)
AnalyticsLoopAborting(list, acc) ==
    IF list = <<>> THEN acc
    ELSE LET uri == Head(list).mongodbUri
             ps == getShopProducts(uri, None)
             cs == getShopCategories(uri)
         IN  IF ps.threw THEN [acc EXCEPT !.ops = @ \o ps.ops]
             ELSE IF cs.threw
             THEN [acc EXCEPT !.totalProducts = @ + Cardinality(ps.result),
                              !.ops = @ \o ps.ops \o cs.ops]
             ELSE AnalyticsLoopAborting(Tail(list),
                 [totalProducts   |-> acc.totalProducts + Cardinality(ps.result),
                  totalCategories |-> acc.totalCategories + Cardinality(cs.result),
                  categorySet     |-> acc.categorySet \cup {c.name : c \in cs.result},
                  ops             |-> acc.ops \o ps.ops \o cs.ops])

\* a variant that fetches the categories of a shop before its products
RECURSIVE AnalyticsLoopCategoriesFirst(_, _)
AnalyticsLoopCategoriesFirst(list, acc) ==
    IF list = <<>> THEN acc
    ELSE LET uri == Head(list).mongodbUri
             ps == getShopProducts(uri, None)
             cs == getShopCategories(uri)
         IN  IF cs.threw
             THEN AnalyticsLoopCategoriesFirst(Tail(list), [acc EXCEPT !.ops = @ \o cs.ops])
             ELSE IF ps.threw
             THEN AnalyticsLoopCategoriesFirst(Tail(list),
                 [acc EXCEPT !.totalCategories = @ + Cardinality(cs.result),
                             !.categorySet = @ \cup {c.name : c \in cs.result},
                             !.ops = @ \o cs.ops \o ps.ops])
             ELSE AnalyticsLoopCategoriesFirst(Tail(list),
                 [totalProducts   |-> acc.totalProducts + Cardinality(ps.result),
                  totalCategories |-> acc.totalCategories + Cardinality(cs.result),
                  categorySet     |-> acc.categorySet \cup {c.name : c \in cs.result},
                  ops             |-> acc.ops \o cs.ops \o ps.ops])

\* a variant that walks the list from its end
RECURSIVE AnalyticsLoopBackwards(_, _)
AnalyticsLoopBackwards(list, acc) ==
    IF list = <<>> THEN acc
    ELSE LET uri == list[Len(list)].mongodbUri
             front == SubSeq(list, 1, Len(list) - 1)
             ps == getShopProducts(uri, None)
             cs == getShopCategories(uri)
         IN  IF ps.threw
             THEN AnalyticsLoopBackwards(front, [acc EXCEPT !.ops = @ \o ps.ops])
             ELSE IF cs.threw
             THEN AnalyticsLoopBackwards(front,
                 [acc EXCEPT !.totalProducts = @ + Cardinality(ps.result),
                             !.ops = @ \o ps.ops \o cs.ops])
             ELSE AnalyticsLoopBackwards(front,
                 [totalProducts   |-> acc.totalProducts + Cardinality(ps.result),
                  totalCategories |-> acc.totalCategories + Cardinality(cs.result),
                  categorySet     |-> acc.categorySet \cup {c.name : c \in cs.result},
                  ops             |-> acc.ops \o ps.ops \o cs.ops])

\* routes.ts:143-154  products, then categories; a throw of either ends the
\* shop's turn, with what was added before it kept
RECURSIVE AnalyticsLoop(_, _)
AnalyticsLoop(list, acc) ==
    IF list = <<>> THEN acc
    ELSE LET uri == Head(list).mongodbUri
             ps == getShopProducts(uri, None)
             cs == getShopCategories(uri)
         IN  IF ps.threw
             THEN AnalyticsLoop(Tail(list), [acc EXCEPT !.ops = @ \o ps.ops])
             ELSE IF cs.threw
             THEN AnalyticsLoop(Tail(list),
                 [acc EXCEPT !.totalProducts = @ + Cardinality(ps.result),
                             !.ops = @ \o ps.ops \o cs.ops])
             ELSE AnalyticsLoop(Tail(list),
                 [totalProducts   |-> acc.totalProducts + Cardinality(ps.result),
                  totalCategories |-> acc.totalCategories + Cardinality(cs.result),
                  categorySet     |-> acc.categorySet \cup {c.name : c \in cs.result},
                  ops             |-> acc.ops \o ps.ops \o cs.ops])

\* routes.ts:134-172
GetAnalytics(auth) ==
    LET who == requireAuth(auth)
    IN  IF who = None THEN Unauthorized
        ELSE IF DirectoryFails THEN Out(500, Msg("Failed to fetch analytics"), St, <<>>)
        ELSE LET list == getAllShops(who[1])
                 acc == AnalyticsLoop(list,
                            [totalProducts |-> 0, totalCategories |-> 0,
                             categorySet |-> {}, ops |-> <<ShopList(who[1], list)>>])
             IN  Out(200,
                     [totalShops |-> Len(list),
                      totalProducts |-> acc.totalProducts,
                      totalCategories |-> acc.totalCategories,
                      uniqueCategories |-> Cardinality(acc.categorySet),
                      recentShops |-> SubSeq(list, 1, IF Len(list) < RecentLimit THEN Len(list)
                                                      ELSE RecentLimit)],
                     St, acc.ops)

\* ---- requests and actions -------------------------------------------------
NoParam == "-"
Req(auth, id, pid, body) == [auth |-> auth, id |-> id, pid |-> pid, body |-> body]

\* the Authorization headers tried: none, a token never issued, every token issued
Auths == {None, Some("bogus")} \cup {Some(Uuid(n)) : n \in 1..nextToken}
\* the :id tried: every id the store has assigned, one it has not, one malformed
ShopIds == {ShopOid(n) : n \in 0..nextShop} \cup {MalformedId}
ProductIds == {ProductOid(n) : n \in 0..nextProduct} \cup {MalformedId}
\* requireAuth answers a caller without a session before the handler reads a
\* parameter (routes.ts:30-37), so such a caller tries one id only
ShopIdsOf(a) == IF requireAuth(a) = None THEN {ShopOid(1)} ELSE ShopIds
ProductIdsOf(a) == IF requireAuth(a) = None THEN {ProductOid(1)} ELSE ProductIds
CategoryQueries == {None, Some(""), Some("all"), Some("rings"), Some("chains")}

NoHist == [returned |-> {}, loggedOut |-> {}, deleted |-> {}]

\* what the responses so far tell: the tokens handed out, and for which email,
\* the tokens presented to a logout that answered 200, and the shop ids
\* presented to a DELETE that answered 200
HistAfter(route, req, out) ==
    [returned |->
        IF route \in {"POST /auth/signup", "POST /auth/login"} /\ out.status \in {200, 201}
        THEN hist.returned \cup {[token |-> out.body.sessionId, email |-> req.body.email,
                                  user |-> out.body.user]}
        ELSE hist.returned,
     loggedOut |->
        IF route = "POST /auth/logout" /\ out.status = 200
        THEN hist.loggedOut \cup {req.auth[1]}
        ELSE hist.loggedOut,
     deleted |->
        IF route = "DELETE /shops/:id" /\ out.status = 200
        THEN hist.deleted \cup {req.id}
        ELSE hist.deleted]

\* what the Authorization header of a request is to the session directory
Caller(req) ==
    IF req.auth = None THEN "missing"
    ELSE IF req.auth[1] \in DOMAIN sessions THEN "admin"
    ELSE IF req.auth[1] \in hist.loggedOut THEN "loggedOut"
    ELSE "unknown"

\* what the :id of a request is to an administrator calling: "own" and
\* "foreign" shops exist, a "missing" one is a well-formed id no shop has
Target(req) ==
    IF req.id = NoParam \/ Caller(req) # "admin" THEN "none"
    ELSE IF stringToObjectIdThrows(req.id) THEN "malformed"
    ELSE IF \A s \in shops : s._id # req.id THEN "missing"
    ELSE IF \E s \in shops : s._id = req.id /\ s.ownerId = sessions[req.auth[1]]
    THEN "own"
    ELSE "foreign"

\* one request served: the handler's outcome becomes the state; a run creates
\* at most MaxTokens sessions, MaxShops shops and MaxProducts products
Respond(route, req, out) ==
    /\ out.st.nextToken > nextToken => out.st.nextToken <= MaxTokens
    /\ out.st.nextShop > nextShop => out.st.nextShop <= MaxShops
    /\ out.st.nextProduct > nextProduct => out.st.nextProduct <= MaxProducts
    /\ resp' = [route |-> route, caller |-> Caller(req), target |-> Target(req),
                status |-> out.status]
    /\ hist' = HistAfter(route, req, out)
    /\ users' = out.st.users
    /\ sessions' = out.st.sessions
    /\ nextToken' = out.st.nextToken
    /\ shops' = out.st.shops
    /\ nextShop' = out.st.nextShop
    /\ products' = out.st.products
    /\ nextProduct' = out.st.nextProduct
    /\ clients' = clients \cup Opened(out.io)
    /\ UNCHANGED <<now, rateVars, emailIndex, failing>>

Apply(route, req, out) == Respond(route, req, out) /\ UNCHANGED signups

\* ---- signup, await by await ----------------------------------------------
\* the handler of POST /auth/signup is suspended at await getUserByEmail,
\* await bcrypt.hash and await createUser; other requests run in between
SignupSlots == {"s1", "s2"}
NotStarted == [pc |-> "idle"]
Answered(body, status, inserted) ==
    [pc |-> "done", email |-> body.email, status |-> status, inserted |-> inserted]

\* routes.ts:41-47  up to the answer of getUserByEmail
SignupBegin(p, body) ==
    /\ signups[p].pc # "checked"
    /\ IF SignupCheck(body) = None
       THEN /\ signups' = [signups EXCEPT ![p] = [pc |-> "checked", body |-> body]]
            /\ UNCHANGED <<now, rateVars, failing, clients, emailIndex, users, shops, nextShop,
                           sessions, nextToken, products, nextProduct, resp, hist>>
       ELSE /\ Respond("POST /auth/signup", Req(None, NoParam, NoParam, body),
                       SignupCheck(body)[1])
            /\ signups' = [signups EXCEPT
                              ![p] = Answered(body, SignupCheck(body)[1].status, FALSE)]

\* routes.ts:49-73  from bcrypt.hash to the response
SignupFinish(p) ==
    /\ signups[p].pc = "checked"
    /\ LET body == signups[p].body
           o == SignupInsert(body)
       IN  /\ Respond("POST /auth/signup", Req(None, NoParam, NoParam, body), o)
           /\ signups' = [signups EXCEPT ![p] = Answered(body, o.status, TRUE)]

Signup == \E b \in SignupBodies :
    Apply("POST /auth/signup", Req(None, NoParam, NoParam, b), PostSignup(b))
Login == \E b \in LoginBodies :
    Apply("POST /auth/login", Req(None, NoParam, NoParam, b), PostLogin(b))
Logout == \E a \in Auths :
    Apply("POST /auth/logout", Req(a, NoParam, NoParam, NoParam), PostLogout(a))
Me == \E a \in Auths :
    Apply("GET /auth/me", Req(a, NoParam, NoParam, NoParam), GetMe(a))
Analytics == \E a \in Auths :
    Apply("GET /analytics", Req(a, NoParam, NoParam, NoParam), GetAnalytics(a))
ListShops == \E a \in Auths :
    Apply("GET /shops", Req(a, NoParam, NoParam, NoParam), GetShops(a))
ReadShop == \E a \in Auths : \E id \in ShopIdsOf(a) :
    Apply("GET /shops/:id", Req(a, id, NoParam, NoParam), GetShop(a, id))
CreateShop == \E a \in Auths, b \in ShopBodies :
    Apply("POST /shops", Req(a, NoParam, NoParam, b), PostShops(a, b))
UpdateShop == \E a \in Auths : \E id \in ShopIdsOf(a), b \in ShopUpdateBodies :
    Apply("PUT /shops/:id", Req(a, id, NoParam, b), PutShop(a, id, b))
RemoveShop == \E a \in Auths : \E id \in ShopIdsOf(a) :
    Apply("DELETE /shops/:id", Req(a, id, NoParam, NoParam), DeleteShop(a, id))
ListCategories == \E a \in Auths : \E id \in ShopIdsOf(a) :
    Apply("GET /shops/:id/categories", Req(a, id, NoParam, NoParam), GetCategories(a, id))
ListProducts == \E a \in Auths : \E id \in ShopIdsOf(a), q \in CategoryQueries :
    Apply("GET /shops/:id/products", Req(a, id, NoParam, q), GetProducts(a, id, q))
ReadProduct == \E a \in Auths : \E id \in ShopIdsOf(a), pid \in ProductIdsOf(a) :
    Apply("GET /shops/:id/products/:productId", Req(a, id, pid, NoParam),
          GetProduct(a, id, pid))
CreateProduct == \E a \in Auths : \E id \in ShopIdsOf(a), b \in ProductBodies :
    Apply("POST /shops/:id/products", Req(a, id, NoParam, b), PostProduct(a, id, b))
UpdateProduct == \E a \in Auths : \E id \in ShopIdsOf(a), pid \in ProductIdsOf(a), b \in ProductUpdateBodies :
    Apply("PUT /shops/:id/products/:productId", Req(a, id, pid, b),
          PutProduct(a, id, pid, b))
RemoveProduct == \E a \in Auths : \E id \in ShopIdsOf(a), pid \in ProductIdsOf(a) :
    Apply("DELETE /shops/:id/products/:productId", Req(a, id, pid, NoParam),
          DeleteProduct(a, id, pid))

NoResp == [route |-> "none"]

\* routes.ts:17  sessions = new Map(); the stores are empty
\* part_006:313-327  createIndexes logs a failed createIndex and returns: the
\* server starts with the unique index or without it
InitUnindexed ==
    /\ users = {}
    /\ sessions = <<>>
    /\ nextToken = 0
    /\ shops = {}
    /\ nextShop = 0
    /\ products = [u \in StoreUris |-> {}]
    /\ nextProduct = 0
    /\ resp = NoResp
    /\ signups = [p \in SignupSlots |-> NotStarted]
    /\ clients = {}
    /\ failing = {}
    /\ emailIndex \in BOOLEAN
    /\ hist = NoHist

InitServer ==
    /\ users = {}
    /\ sessions = <<>>
    /\ nextToken = 0
    /\ shops = {}
    /\ nextShop = 0
    /\ products = [u \in StoreUris |-> {}]
    /\ nextProduct = 0
    /\ resp = NoResp
    /\ signups = [p \in SignupSlots |-> NotStarted]
    /\ clients = {}
    /\ failing = {}
    /\ emailIndex = TRUE
    /\ hist = NoHist

Alice == [_id |-> UserOid(1), email |-> "a@x.com", password |-> Hash("secret1"),
          name |-> "Asha"]
Bob == [_id |-> UserOid(2), email |-> "b@x.com", password |-> Hash("secret1"),
        name |-> "Asha"]

\* a process start on a directory store in which two administrators signed up
\* during earlier runs; the session directory is empty again
InitRegistered ==
    /\ users = {Alice, Bob}
    /\ sessions = <<>>
    /\ nextToken = 0
    /\ shops = {}
    /\ nextShop = 0
    /\ products = [u \in StoreUris |-> {}]
    /\ nextProduct = 0
    /\ resp = NoResp
    /\ signups = [p \in SignupSlots |-> NotStarted]
    /\ clients = {}
    /\ failing = {}
    /\ emailIndex = TRUE
    /\ hist = NoHist

ShopOfAlice == [_id |-> ShopOid(1), ownerId |-> UserOid(1), name |-> "Shop",
                mongodbUri |-> U1, createdAt |-> 0, updatedAt |-> 0]
ShopOfBob == [_id |-> ShopOid(2), ownerId |-> UserOid(2), name |-> "Shop",
              mongodbUri |-> U2, createdAt |-> 0, updatedAt |-> 0]

\* each of them has registered a shop and has logged in once; no catalog
\* request was served yet
LoggedIn(token, user) == [token |-> token, email |-> user.email, user |-> PublicUser(user)]
InitWithShops ==
    /\ users = {Alice, Bob}
    /\ sessions = (Uuid(1) :> Alice._id) @@ (Uuid(2) :> Bob._id)
    /\ nextToken = 2
    /\ shops = {ShopOfAlice, ShopOfBob}
    /\ nextShop = 2
    /\ products = [u \in StoreUris |-> {}]
    /\ nextProduct = 0
    /\ resp = NoResp
    /\ signups = [p \in SignupSlots |-> NotStarted]
    /\ clients = {}
    /\ failing = {}
    /\ emailIndex = TRUE
    /\ hist = [NoHist EXCEPT !.returned = {LoggedIn(Uuid(1), Alice), LoggedIn(Uuid(2), Bob)}]

InitClockAndRates ==
    /\ now = 0
    /\ cachedRates = None
    /\ lastFetchTime = None
    /\ ratePc = [p \in Callers |-> "idle"]
    /\ rateEvt = NoEvt
    /\ lastRet = None

Init == InitClockAndRates /\ InitServer
InitSignup == InitClockAndRates /\ InitUnindexed

\* the account routes, from an empty directory store, as time passes
NextAuth == Signup \/ Login \/ Logout \/ Me \/ TickRates
SpecAuth == Init /\ [][NextAuth]_vars

\* ---- connectToShopDB on its own -------------------------------------------
Hosts == {"host1"}
DbNames == {"shopdb", " "}
Paths == {<<>>, <<"/">>} \cup {<<"/", d>> : d \in DbNames}
QueryPieces == {"w=1", "/", "?"}
Queries ==
    {<<>>} \cup {<<"?">> \o q : q \in UNION {[1..n -> QueryPieces] : n \in 0..MaxQuery}}
ConnectionStrings ==
    {u \in {scheme \o <<h>> \o p \o q :
                scheme \in {Mongo, MongoSrv}, h \in Hosts, p \in Paths, q \in Queries} :
        WellFormed(u)}

\* part_006:153-175  one call
ConnectToShopDB(mongoUri) ==
    /\ Cardinality(clients) < MaxClients
    /\ clients' = clients \cup {connectToShopDB(mongoUri)}
    /\ UNCHANGED <<now, rateVars, users, shops, nextShop, sessions, nextToken,
                   products, nextProduct, emailIndex, failing, signups, resp, hist>>

NextConnect == \E u \in ConnectionStrings : ConnectToShopDB(u)
SpecConnect == Init /\ [][NextConnect]_vars

\* signups racing each other
NextSignup ==
    \/ \E p \in SignupSlots, b \in SignupBodies : SignupBegin(p, b)
    \/ \E p \in SignupSlots : SignupFinish(p)
SpecSignup == InitSignup /\ [][NextSignup]_vars

\* the shop routes
Next ==
    \/ Login \/ ListShops \/ ReadShop
    \/ CreateShop \/ UpdateShop \/ RemoveShop
InitShopRoutes == InitClockAndRates /\ InitRegistered
Spec == InitShopRoutes /\ [][Next]_vars

\* the catalog routes and the analytics
NextCatalog ==
    \/ Analytics \/ ListCategories \/ ListProducts \/ ReadProduct
    \/ CreateProduct \/ UpdateProduct \/ RemoveProduct
InitCatalog == InitClockAndRates /\ InitWithShops
SpecCatalog == InitCatalog /\ [][NextCatalog]_vars

\* ---- the shop and catalog routes while a store fails ----------------------
\* what createShopProduct stored for the body Ring
RingStored == [_id |-> ProductOid(1)] @@ Ring @@ ProductDefaults

\* as InitWithShops, some time later: the first shop has a product, and one
\* or more of the stores have begun to fail
InitFailing ==
    /\ users = {Alice, Bob}
    /\ sessions = (Uuid(1) :> Alice._id) @@ (Uuid(2) :> Bob._id)
    /\ nextToken = 2
    /\ shops = {ShopOfAlice, ShopOfBob}
    /\ nextShop = 2
    /\ products = [u \in StoreUris |-> IF u = U1 THEN {RingStored} ELSE {}]
    /\ nextProduct = 1
    /\ resp = NoResp
    /\ signups = [p \in SignupSlots |-> NotStarted]
    /\ clients = {connectToShopDB(U1)}
    /\ failing \in {Down(S) : S \in SUBSET Stores \ {{}}}
    /\ emailIndex = TRUE
    /\ hist = [NoHist EXCEPT !.returned = {LoggedIn(Uuid(1), Alice), LoggedIn(Uuid(2), Bob)}]

NextFaults ==
    \/ ListShops \/ ReadShop \/ CreateShop \/ UpdateShop \/ RemoveShop
    \/ ListCategories \/ ListProducts \/ ReadProduct
    \/ CreateProduct \/ UpdateProduct \/ RemoveProduct
InitFaults == InitClockAndRates /\ InitFailing
SpecFaults == InitFaults /\ [][NextFaults]_vars

\* ---- the analytics while collections fail and recover ----------------------
Fail(f) ==
    /\ f \notin failing
    /\ failing' = failing \cup {f}
    /\ UNCHANGED <<now, rateVars, users, shops, nextShop, sessions, nextToken, products,
                   nextProduct, clients, emailIndex, signups, resp, hist>>
Recover(f) ==
    /\ f \in failing
    /\ failing' = failing \ {f}
    /\ UNCHANGED <<now, rateVars, users, shops, nextShop, sessions, nextToken, products,
                   nextProduct, clients, emailIndex, signups, resp, hist>>

\* a second shop of the first administrator, newer, on the connection string
\* of the other administrator's shop
SecondOfAlice == [_id |-> ShopOid(3), ownerId |-> UserOid(1), name |-> "Shop",
                  mongodbUri |-> U2, createdAt |-> 1, updatedAt |-> 1]

InitTwoShops ==
    /\ now = 2
    /\ cachedRates = None
    /\ lastFetchTime = None
    /\ ratePc = [p \in Callers |-> "idle"]
    /\ rateEvt = NoEvt
    /\ lastRet = None
    /\ users = {Alice, Bob}
    /\ sessions = (Uuid(1) :> Alice._id) @@ (Uuid(2) :> Bob._id)
    /\ nextToken = 2
    /\ shops = {ShopOfAlice, ShopOfBob, SecondOfAlice}
    /\ nextShop = 3
    /\ products = [u \in StoreUris |-> IF u = U1 THEN {RingStored} ELSE {}]
    /\ nextProduct = 1
    /\ resp = NoResp
    /\ signups = [p \in SignupSlots |-> NotStarted]
    /\ clients = {connectToShopDB(U1)}
    /\ failing = {}
    /\ emailIndex = TRUE
    /\ hist = [NoHist EXCEPT !.returned = {LoggedIn(Uuid(1), Alice), LoggedIn(Uuid(2), Bob)}]

NextAnalytics ==
    \/ \E f \in Faults : Fail(f)
    \/ \E f \in Faults : Recover(f)
    \/ Analytics \/ CreateProduct \/ RemoveProduct
SpecAnalytics == InitTwoShops /\ [][NextAnalytics]_vars

\* the first administrator has one shop more than the analytics lists as
\* recent, registered one after the other on the two stores in turn
ManyShops ==
    {[_id |-> ShopOid(n), ownerId |-> UserOid(1), name |-> "Shop",
      mongodbUri |-> IF n % 2 = 1 THEN U1 ELSE U2, createdAt |-> n, updatedAt |-> n]
        : n \in 1..(RecentLimit + 1)}
InitManyShops ==
    /\ now = RecentLimit + 2
    /\ cachedRates = None
    /\ lastFetchTime = None
    /\ ratePc = [p \in Callers |-> "idle"]
    /\ rateEvt = NoEvt
    /\ lastRet = None
    /\ users = {Alice, Bob}
    /\ sessions = (Uuid(1) :> Alice._id) @@ (Uuid(2) :> Bob._id)
    /\ nextToken = 2
    /\ shops = ManyShops
    /\ nextShop = RecentLimit + 1
    /\ products = [u \in StoreUris |-> IF u = U1 THEN {RingStored} ELSE {}]
    /\ nextProduct = 1
    /\ resp = NoResp
    /\ signups = [p \in SignupSlots |-> NotStarted]
    /\ clients = {connectToShopDB(U1)}
    /\ failing = {}
    /\ emailIndex = TRUE
    /\ hist = [NoHist EXCEPT !.returned = {LoggedIn(Uuid(1), Alice), LoggedIn(Uuid(2), Bob)}]
SpecManyShops == InitManyShops /\ [][NextAnalytics]_vars

\* the first administrator is logged in, the second has logged out; each has
\* a shop, and the store of the first holds a product
InitOneCaller ==
    /\ users = {Alice, Bob}
    /\ sessions = (Uuid(1) :> Alice._id)
    /\ nextToken = 2
    /\ shops = {ShopOfAlice, ShopOfBob}
    /\ nextShop = 2
    /\ products = [u \in StoreUris |-> IF u = U1 THEN {RingStored} ELSE {}]
    /\ nextProduct = 1
    /\ resp = NoResp
    /\ signups = [p \in SignupSlots |-> NotStarted]
    /\ clients = {connectToShopDB(U1)}
    /\ failing = {}
    /\ emailIndex = TRUE
    /\ hist = [returned |-> {LoggedIn(Uuid(1), Alice), LoggedIn(Uuid(2), Bob)},
               loggedOut |-> {Uuid(2)}, deleted |-> {}]
\* the routes with an id in the path
NextIds ==
    \/ ReadShop \/ UpdateShop \/ RemoveShop
    \/ ListCategories \/ ListProducts \/ ReadProduct
    \/ CreateProduct \/ UpdateProduct \/ RemoveProduct
InitIds == InitClockAndRates /\ InitOneCaller
SpecIds == InitIds /\ [][NextIds]_vars

\* a third shop of the first administrator, on a string of its own
ThirdOfAlice == [_id |-> ShopOid(4), ownerId |-> UserOid(1), name |-> "Shop",
                 mongodbUri |-> SlashInQuery, createdAt |-> 2, updatedAt |-> 2]

\* four shops, none with a product yet: the second shop of the first
\* administrator and the shop of the second, who has logged out, store the
\* same connection string
InitSharedStore ==
    /\ users = {Alice, Bob}
    /\ sessions = (Uuid(1) :> Alice._id)
    /\ nextToken = 2
    /\ shops = {ShopOfAlice, ShopOfBob, SecondOfAlice, ThirdOfAlice}
    /\ nextShop = 4
    /\ products = [u \in StoreUris |-> {}]
    /\ nextProduct = 0
    /\ resp = NoResp
    /\ signups = [p \in SignupSlots |-> NotStarted]
    /\ clients = {}
    /\ failing = {}
    /\ emailIndex = TRUE
    /\ hist = [returned |-> {LoggedIn(Uuid(1), Alice), LoggedIn(Uuid(2), Bob)},
               loggedOut |-> {Uuid(2)}, deleted |-> {}]
\* products are written through the shops, and shops are removed
NextShared == CreateProduct \/ UpdateProduct \/ RemoveProduct \/ RemoveShop
InitShared ==
    /\ now = 3
    /\ cachedRates = None
    /\ lastFetchTime = None
    /\ ratePc = [p \in Callers |-> "idle"]
    /\ rateEvt = NoEvt
    /\ lastRet = None
    /\ InitSharedStore
SpecShared == InitShared /\ [][NextShared]_vars

\* the routes that validate a body
NextMutations == Signup \/ Login \/ CreateShop \/ UpdateShop \/ CreateProduct \/ UpdateProduct
\* the first administrator is logged in and has a shop; the second has logged
\* out and has removed theirs
InitOneShop ==
    /\ users = {Alice, Bob}
    /\ sessions = (Uuid(1) :> Alice._id)
    /\ nextToken = 2
    /\ shops = {ShopOfAlice}
    /\ nextShop = 2
    /\ products = [u \in StoreUris |-> {}]
    /\ nextProduct = 0
    /\ resp = NoResp
    /\ signups = [p \in SignupSlots |-> NotStarted]
    /\ clients = {}
    /\ failing = {}
    /\ emailIndex = TRUE
    /\ hist = [returned |-> {LoggedIn(Uuid(1), Alice), LoggedIn(Uuid(2), Bob)},
               loggedOut |-> {Uuid(2)}, deleted |-> {ShopOfBob._id}]
InitMutations == InitClockAndRates /\ InitOneShop
SpecMutations == InitMutations /\ [][NextMutations]_vars

\* shops are edited while time passes
InitShopEdit == InitClockAndRates /\ InitWithShops
NextShopEdit == UpdateShop \/ TickRates
SpecShopEdit == InitShopEdit /\ [][NextShopEdit]_vars

SpecRates == Init /\ [][NextRates]_vars

(***************************************************************************)
(* Rate Fetcher: properties                                                *)
(***************************************************************************)
NoneInFlight == \A q \in Callers : ratePc[q] = "idle"

\* the step is the part of a call of scrapeIBJARates that runs before any await
CallStep(p) == ratePc[p] = "idle" /\ rateEvt'.step = "call" /\ rateEvt'.caller = p
                 /\ now' = now

\* the step is the return of a suspended call
ReturnStep == rateEvt'.step = "resume" /\ ratePc[rateEvt'.caller] = "fetching"
                 /\ ratePc'[rateEvt'.caller] = "idle"

\* the response of the last fetch, judged on the response alone
FetchFailed(evt) ==
    \/ evt.kind = "network error"
    \/ evt.kind = "not ok"
    \/ evt.kind = "page" /\ evt.priced # Markers

AllNotAvailable(r) ==
    r.gold_24k = "₹ N/A" /\ r.gold_22k = "₹ N/A" /\ r.silver = "₹ N/A"

\* C1: a call issues a fetch iff there is no cached value or the cached value
\* is at least CACHE_DURATION old; a call that issues none, made while no other
\* call is in flight, returns the cached value, which is the value the previous
\* call returned, and leaves the cache and its timestamp as they were.
C1_FetchIffNoFreshCache ==
    [][\A p \in Callers : CallStep(p) =>
          /\ (ratePc'[p] = "fetching")
                <=> (cachedRates = None \/ now - lastFetchTime[1] >= CACHE_DURATION)
          /\ (ratePc'[p] # "fetching" /\ NoneInFlight) =>
                /\ rateEvt'.ret = cachedRates
                /\ rateEvt'.ret = lastRet
                /\ cachedRates' = cachedRates
                /\ lastFetchTime' = lastFetchTime
                /\ ratePc' = ratePc]_vars

\* a call one millisecond before expiry was served from the cache
C1_Witness ==
    /\ rateEvt.step = "call" /\ ~rateEvt.fetched
    /\ NoneInFlight
    /\ lastFetchTime # None /\ now - lastFetchTime[1] = CACHE_DURATION - 1
    /\ rateEvt.ret = cachedRates

\* C2: a failed fetch (network error, non-OK status, page without a price for
\* a marker) made when a cached value exists and has expired returns the cached
\* value and leaves the cached value and its timestamp unchanged, so the cache
\* is still expired for the next call.
C2_StaleOnError ==
    [][(/\ ReturnStep
        /\ FetchFailed(rateEvt')
        /\ cachedRates # None
        /\ now - lastFetchTime[1] >= CACHE_DURATION)
       =>
       (/\ rateEvt'.ret = cachedRates
        /\ cachedRates' = cachedRates
        /\ lastFetchTime' = lastFetchTime
        /\ now' - lastFetchTime'[1] >= CACHE_DURATION)]_vars

\* C3: a failed fetch made when nothing is cached returns the sentinel with
\* all three prices not available, and leaves cachedRates and lastFetchTime
\* unset.
C3_SentinelNotCached ==
    [][(/\ ReturnStep
        /\ FetchFailed(rateEvt')
        /\ cachedRates = None)
       =>
       (/\ rateEvt'.ret # None
        /\ AllNotAvailable(rateEvt'.ret[1])
        /\ cachedRates' = None
        /\ lastFetchTime' = None)]_vars

NoFieldMissing(r) ==
    \A v \in {r.gold_24k, r.gold_22k, r.silver} : v \notin {"₹ NaN", "₹ N/A"}

\* C4: a page with a price for only one marker, or for neither, never writes
\* the cache and is answered with the previous cached value or the sentinel;
\* and no cached value has a field that is missing or not available.
C4_NoPartialResult ==
    /\ [](cachedRates # None => NoFieldMissing(cachedRates[1]))
    /\ [][(/\ ReturnStep
        /\ rateEvt'.kind = "page"
        /\ rateEvt'.priced # Markers)
       =>
       (/\ cachedRates' = cachedRates
        /\ lastFetchTime' = lastFetchTime
        /\ IF cachedRates # None
           THEN rateEvt'.ret = cachedRates
           ELSE AllNotAvailable(rateEvt'.ret[1]))]_vars

Wrote(evt) == evt.step = "resume" /\ evt.kind = "page" /\ evt.g24 # 0 /\ evt.g22 # 0

\* C22: when several calls find the cache missing or expired and fetch at the
\* same time, the cached value and its timestamp change only in the return of
\* one call whose fetch succeeded, which writes both from its own result at its
\* own time; every cached value carries the time of the timestamp it is paired
\* with; and any other step leaves both alone, so once all calls have returned
\* the cache holds the result of the successful fetch that returned last.
C22_WrittenTogetherLastWins ==
    [][/\ (cachedRates' # cachedRates \/ lastFetchTime' # lastFetchTime)
             => ReturnStep /\ Wrote(rateEvt')
       /\ (ReturnStep /\ Wrote(rateEvt')) =>
             /\ cachedRates' = rateEvt'.ret
             /\ cachedRates'[1].lastUpdated = now
             /\ lastFetchTime' = Some(now)
       /\ (cachedRates' = None) <=> (lastFetchTime' = None)
       /\ cachedRates' # None
             => cachedRates'[1].lastUpdated = lastFetchTime'[1]]_vars

\* two calls are fetching at the same time: one has returned with a page and
\* written the value and the timestamp, the other has yet to return
C22_Witness ==
    /\ Wrote(rateEvt)
    /\ \E q \in Callers \ {rateEvt.caller} : ratePc[q] = "fetching"
    /\ cachedRates = rateEvt.ret
    /\ cachedRates[1].gold_24k = "₹ 70,000"
    /\ lastFetchTime = Some(now)

\* C26: in every state cachedRates and lastFetchTime are both unset or both
\* set; no field of a cached value is the not-available sentinel; and no step
\* unsets lastFetchTime or moves it back.
C26_CacheInvariants ==
    /\ []((cachedRates = None) <=> (lastFetchTime = None))
    /\ [](cachedRates # None =>
             \A v \in {cachedRates[1].gold_24k, cachedRates[1].gold_22k,
                       cachedRates[1].silver} : v # "₹ N/A")
    /\ [][lastFetchTime # None =>
             lastFetchTime' # None /\ lastFetchTime'[1] >= lastFetchTime[1]]_vars

\* an hour in, a fetch has returned with a page and written the cache: value
\* and timestamp are both set, and the timestamp is the time of the write
C26_Witness ==
    /\ Wrote(rateEvt) /\ NoneInFlight
    /\ cachedRates # None /\ lastFetchTime = Some(now)
    /\ now = CACHE_DURATION
    /\ cachedRates[1].lastUpdated = now

\* ---- ownership and sessions -----------------------------------------------
\* the Authorization headers that carry a live session, and those that do not
SessionHolders == {a \in Auths : a # None /\ a[1] \in DOMAIN sessions}
Strangers == {a \in Auths : a = None \/ a[1] \notin DOMAIN sessions}

\* the shops that exist and are not the caller's
ForeignShops(a) == {s \in shops : s.ownerId # sessions[a[1]]}
\* the well-formed shop ids no shop has
MissingIds == {ShopOid(n) : n \in 0..nextShop} \ {s._id : s \in shops}

\* what the client sees of an outcome
Answer(o) == [status |-> o.status, body |-> o.body]
ShopNotFound == [status |-> 404, body |-> Msg("Shop not found")]
InvalidShopData == [status |-> 400, body |-> Msg("Invalid shop data")]

NeverListed(a, s) ==
    \A i \in DOMAIN GetShops(a).body : GetShops(a).body[i]._id # s._id

\* C6 as the specification states it: whoever holds a session gets 404 from
\* GET, PUT and DELETE on a shop of another administrator, the directory store
\* stays as it is, and GET /shops does not list that shop
C6_ForeignShopAlways404 ==
    \A a \in SessionHolders : \A s \in ForeignShops(a) :
        /\ GetShop(a, s._id).status = 404
        /\ DeleteShop(a, s._id).status = 404 /\ DeleteShop(a, s._id).st = St
        /\ \A b \in ShopUpdateBodies :
              PutShop(a, s._id, b).status = 404 /\ PutShop(a, s._id, b).st = St
        /\ NeverListed(a, s)

\* C6 amended: GET and DELETE on a shop of another administrator answer 404
\* "Shop not found"; PUT answers the same when its body is a valid update and
\* 400 "Invalid shop data" when it is not; the directory store stays as it
\* is, and GET /shops does not list that shop
C6_ForeignShopNeverServed ==
    \A a \in SessionHolders : \A s \in ForeignShops(a) :
        /\ Answer(GetShop(a, s._id)) = ShopNotFound /\ GetShop(a, s._id).st = St
        /\ Answer(DeleteShop(a, s._id)) = ShopNotFound /\ DeleteShop(a, s._id).st = St
        /\ \A b \in ShopUpdateBodies :
              /\ Answer(PutShop(a, s._id, b)) =
                    IF ValidUpdateShop(b) THEN ShopNotFound ELSE InvalidShopData
              /\ PutShop(a, s._id, b).st = St
        /\ NeverListed(a, s)

\* an administrator asked to delete a shop of another and got 404; it is there
C6_Witness ==
    /\ resp.route = "DELETE /shops/:id"
    /\ resp.caller = "admin" /\ resp.target = "foreign" /\ resp.status = 404
    /\ shops # {}

\* P(id, outcome) of every request caller a can make to a catalog route
EveryCatalogOutcome(a, P(_, _)) ==
    \A id \in ShopIds :
        /\ P(id, GetCategories(a, id))
        /\ \A q \in CategoryQueries : P(id, GetProducts(a, id, q))
        /\ \A b \in ProductBodies : P(id, PostProduct(a, id, b))
        /\ \A p \in ProductIds :
              /\ P(id, GetProduct(a, id, p))
              /\ P(id, DeleteProduct(a, id, p))
              /\ \A b \in ProductUpdateBodies : P(id, PutProduct(a, id, p, b))

Connects(ops) == {i \in DOMAIN ops : ops[i].op = "connectToShopDB"}

\* every connection in ops comes after a findOne of shop id for the caller that
\* found a shop of the caller, and goes to that shop's connection string
ConnectsFollowLookup(caller, id, ops) ==
    \A i \in Connects(ops) : \E j \in 1..(i - 1) :
        /\ ops[j].op = "shops.findOne"
        /\ ops[j].id = id /\ ops[j].ownerId = caller
        /\ ops[j].result # None
        /\ ops[j].result[1]._id = id /\ ops[j].result[1].ownerId = caller
        /\ ops[j].result[1].mongodbUri = ops[i].uri

\* the same for the analytics: the listing of the caller's shops comes first
ConnectsFollowListing(caller, ops) ==
    \A i \in Connects(ops) : \E j \in 1..(i - 1) :
        /\ ops[j].op = "shops.find"
        /\ ops[j].ownerId = caller
        /\ \E k \in DOMAIN ops[j].result :
              /\ ops[j].result[k].ownerId = caller
              /\ ops[j].result[k].mongodbUri = ops[i].uri

LookupFoundNone(ops) ==
    \/ \E j \in DOMAIN ops : ops[j].op = "shops.findOne" /\ ops[j].result = None
    \/ \E j \in DOMAIN ops : ops[j].op = "shops.find" /\ ops[j].result = <<>>

\* C7: in every catalog route and in the analytics, a connection to an
\* external store comes after a lookup of the shop scoped to the caller that
\* found it, and uses that shop's connection string; no connection is made
\* when the lookup finds no shop, nor for a caller without a session
C7_LookupBeforeConnect ==
    \A a \in Auths :
        LET Guarded(id, o) ==
                /\ ConnectsFollowLookup(sessions[a[1]], id, o.io)
                /\ LookupFoundNone(o.io) => Connects(o.io) = {}
            Idle(id, o) == o.io = <<>>
        IN  IF a \in SessionHolders
            THEN /\ EveryCatalogOutcome(a, Guarded)
                 /\ ConnectsFollowListing(sessions[a[1]], GetAnalytics(a).io)
                 /\ LookupFoundNone(GetAnalytics(a).io)
                        => Connects(GetAnalytics(a).io) = {}
            ELSE /\ EveryCatalogOutcome(a, Idle)
                 /\ GetAnalytics(a).io = <<>>

\* an administrator read a product of an own shop: the store was connected to
C7_Witness ==
    /\ resp.route = "GET /shops/:id/products/:productId"
    /\ resp.caller = "admin" /\ resp.target = "own" /\ resp.status = 200
    /\ Connects(GetAnalytics(CHOOSE a \in SessionHolders : TRUE).io) # {}

\* what each route that names a shop answers to caller a for shop id
Answers(a, id) ==
    [get       |-> Answer(GetShop(a, id)),
     put       |-> [b \in ShopUpdateBodies |-> Answer(PutShop(a, id, b))],
     delete    |-> Answer(DeleteShop(a, id)),
     categories |-> Answer(GetCategories(a, id)),
     products  |-> [q \in CategoryQueries |-> Answer(GetProducts(a, id, q))],
     product   |-> [p \in ProductIds |-> Answer(GetProduct(a, id, p))],
     postProduct |-> [b \in ProductBodies |-> Answer(PostProduct(a, id, b))],
     putProduct |-> [p \in ProductIds |->
                       [b \in ProductUpdateBodies |-> Answer(PutProduct(a, id, p, b))]],
     deleteProduct |-> [p \in ProductIds |-> Answer(DeleteProduct(a, id, p))]]

\* every answer is 404, except those of PUT /shops/:id to the bodies in Except
All404Except(ans, Except) ==
    /\ ans.get.status = 404 /\ ans.delete.status = 404
    /\ \A b \in ShopUpdateBodies \ Except : ans.put[b].status = 404
    /\ ans.categories.status = 404
    /\ \A q \in CategoryQueries : ans.products[q].status = 404
    /\ \A p \in ProductIds :
          /\ ans.product[p].status = 404 /\ ans.deleteProduct[p].status = 404
          /\ \A b \in ProductUpdateBodies : ans.putProduct[p][b].status = 404
    /\ \A b \in ProductBodies : ans.postProduct[b].status = 404

\* C8 as the specification states it: on every shop and catalog route the
\* answer for a shop of another administrator is the answer for a well-formed
\* id no shop has, and both are 404
C8_ForeignAsMissingAll404 ==
    \A a \in SessionHolders : \A s \in ForeignShops(a) : \A m \in MissingIds :
        /\ Answers(a, s._id) = Answers(a, m)
        /\ All404Except(Answers(a, s._id), {})
        /\ All404Except(Answers(a, m), {})

\* C8 amended: on every shop and catalog route the answer for a shop of
\* another administrator is the answer for a well-formed id no shop has; both
\* are 404, except that PUT /shops/:id with an invalid body answers both 400
C8_ForeignAsMissing ==
    \A a \in SessionHolders : \A s \in ForeignShops(a) : \A m \in MissingIds :
        LET invalid == {b \in ShopUpdateBodies : ~ValidUpdateShop(b)}
        IN  /\ Answers(a, s._id) = Answers(a, m)
            /\ All404Except(Answers(a, s._id), invalid)
            /\ \A b \in invalid : Answers(a, s._id).put[b].status = 400

\* an administrator asked for an id no shop has and got 404, while a shop of
\* another administrator exists
C8_Witness ==
    /\ resp.route = "GET /shops/:id"
    /\ resp.caller = "admin" /\ resp.target = "missing" /\ resp.status = 404
    /\ \E a \in SessionHolders : ForeignShops(a) # {}

\* answered 401 with no store operation and nothing changed
Rejected(o) ==
    o = [status |-> 401, body |-> Msg("Unauthorized"), io |-> <<>>, st |-> St]

\* C9: without a live session every authenticated route answers 401, touches
\* no store and changes nothing; a login with an unknown email or a wrong
\* password answers 401 and adds no session
C9_NoSessionNoAccess ==
    /\ \A a \in Strangers :
          /\ Rejected(GetMe(a)) /\ Rejected(PostLogout(a))
          /\ Rejected(GetAnalytics(a)) /\ Rejected(GetShops(a))
          /\ \A b \in ShopBodies : Rejected(PostShops(a, b))
          /\ \A id \in ShopIds :
                /\ Rejected(GetShop(a, id)) /\ Rejected(DeleteShop(a, id))
                /\ \A b \in ShopUpdateBodies : Rejected(PutShop(a, id, b))
          /\ LET RejectedAt(id, o) == Rejected(o)
             IN  EveryCatalogOutcome(a, RejectedAt)
    /\ \A b \in LoginBodies :
          LET user == getUserByEmail(b.email)
          IN  IsEmail(b.email) /\ (user = None \/ ~Compare(b.password, user[1].password))
                => /\ PostLogin(b).status = 401
                   /\ PostLogin(b).st = St

\* a token the directory does not hold was presented to delete a shop: 401,
\* and the shop is there
C9_Witness ==
    /\ resp.route = "DELETE /shops/:id"
    /\ resp.caller = "unknown" /\ resp.status = 401
    /\ \E s \in shops : s._id = ShopOid(1)

\* C10: the session directory is empty at process start; it holds exactly the
\* tokens a successful signup or login returned and no logout was given since,
\* however much time has passed; each maps to the id of the administrator who
\* signed up or logged in; a token given to logout is answered 401 afterwards
C10_SessionDirectory ==
    /\ resp = NoResp => sessions = <<>>
    /\ DOMAIN sessions = {r.token : r \in hist.returned} \ hist.loggedOut
    /\ \A r \in hist.returned :
          r.token \in DOMAIN sessions
            => /\ getUserByEmail(r.email) # None
               /\ sessions[r.token] = getUserByEmail(r.email)[1]._id
    /\ \A t \in hist.loggedOut :
          /\ GetMe(Some(t)).status = 401 /\ PostLogout(Some(t)).status = 401
          /\ GetShops(Some(t)).status = 401 /\ GetAnalytics(Some(t)).status = 401

\* long after a logout its token got 401 while a token of a login is still in
C10_Witness ==
    /\ resp.route = "GET /auth/me"
    /\ resp.caller = "loggedOut" /\ resp.status = 401
    /\ now >= CACHE_DURATION
    /\ \E r \in hist.returned :
          r.token \in DOMAIN sessions /\ r.token # Uuid(1)

\* ---- accounts -------------------------------------------------------------
\* the fields of a user object in a response
UserFields == {"_id", "email", "name"}

\* C11: a signup answered 201 returns a sessionId and the administrator with
\* the email and name submitted; while a session returned by signup or login
\* is in the directory, GET /auth/me with it answers 200 with that same
\* administrator; no signup, login or me response carries the password
C11_MeReturnsWhoSignedUp ==
    /\ \A b \in SignupBodies :
          PostSignup(b).status = 201
            => /\ DOMAIN PostSignup(b).body = {"sessionId", "user"}
               /\ DOMAIN PostSignup(b).body.user = UserFields
               /\ PostSignup(b).body.user.email = b.email
               /\ PostSignup(b).body.user.name = b.name
    /\ \A b \in LoginBodies :
          PostLogin(b).status = 200
            => /\ DOMAIN PostLogin(b).body = {"sessionId", "user"}
               /\ DOMAIN PostLogin(b).body.user = UserFields
    /\ \A r \in hist.returned :
          r.token \in DOMAIN sessions
            => /\ Answer(GetMe(Some(r.token))) = [status |-> 200, body |-> r.user]
               /\ r.user.email = r.email
    /\ \A a \in Auths :
          GetMe(a).status = 200 => DOMAIN GetMe(a).body = UserFields

\* the second administrator asked who they are, after the first logged out
C11_Witness ==
    /\ resp.route = "GET /auth/me"
    /\ resp.caller = "admin" /\ resp.status = 200
    /\ Uuid(1) \in hist.loggedOut
    /\ \E r \in hist.returned :
          r.token \in DOMAIN sessions /\ r.user._id = UserOid(2)

\* ---- shops ----------------------------------------------------------------
\* POST /shops with a valid body answers 201 with the fields submitted, an id
\* no shop had before, the caller as owner and createdAt equal to updatedAt,
\* and that is the shop stored
CreatedAsSubmitted ==
    \A a \in SessionHolders : \A b \in ShopBodies :
        ValidInsertShop(b) =>
            LET o == PostShops(a, b)
            IN  /\ o.status = 201
                /\ \A f \in DOMAIN b : o.body[f] = b[f]
                /\ DOMAIN o.body = DOMAIN b \cup {"_id", "ownerId", "createdAt", "updatedAt"}
                /\ o.body._id \notin {s._id : s \in shops} \cup hist.deleted
                /\ ~stringToObjectIdThrows(o.body._id)
                /\ o.body.ownerId = sessions[a[1]]
                /\ o.body.createdAt = o.body.updatedAt
                /\ o.st.shops = shops \cup {o.body}

\* C12 as the specification states it: a valid POST /shops answers 201 with
\* the shop as submitted; once the owner's DELETE answered 200, GET, PUT and
\* DELETE on that id answer 404 to every administrator
C12_DeletedAlways404 ==
    /\ CreatedAsSubmitted
    /\ \A id \in hist.deleted : \A a \in SessionHolders :
          /\ GetShop(a, id).status = 404
          /\ DeleteShop(a, id).status = 404
          /\ \A b \in ShopUpdateBodies : PutShop(a, id, b).status = 404

\* C12 amended: a valid POST /shops answers 201 with the shop as submitted;
\* once the owner's DELETE answered 200, GET and DELETE on that id answer 404
\* to every administrator, and PUT answers 404 when its body is a valid
\* update and 400 when it is not
C12_CreatedThenGone ==
    /\ CreatedAsSubmitted
    /\ \A id \in hist.deleted : \A a \in SessionHolders :
          /\ Answer(GetShop(a, id)) = ShopNotFound
          /\ Answer(DeleteShop(a, id)) = ShopNotFound
          /\ \A b \in ShopUpdateBodies :
                Answer(PutShop(a, id, b)) =
                    IF ValidUpdateShop(b) THEN ShopNotFound ELSE InvalidShopData

\* a shop was created and deleted, and a later PUT on its id got 404
C12_Witness ==
    /\ resp.route = "PUT /shops/:id"
    /\ resp.caller = "admin" /\ resp.target = "missing" /\ resp.status = 404
    /\ hist.deleted = {ShopOid(1)}
    /\ shops = {}

\* C13: however signups interleave, two that both passed the existing-user
\* check included, no email has two administrator records; per email at most
\* one signup is answered 201 with a session, every other one is answered 400,
\* and the sessions are those of the signups answered 201
C13_EmailUnique ==
    /\ \A e \in Emails :
          /\ Cardinality({u \in users : u.email = e}) <= 1
          /\ Cardinality({r \in hist.returned : r.email = e}) <= 1
          /\ Cardinality({p \in SignupSlots :
                 signups[p].pc = "done" /\ signups[p].email = e
                    /\ signups[p].status = 201}) <= 1
    /\ \A p \in SignupSlots :
          signups[p].pc = "done" => signups[p].status \in {201, 400}
    /\ DOMAIN sessions = {r.token : r \in hist.returned}

\* C13, where the unique index exists: the same uniqueness
C13_UniqueWhereIndexed == emailIndex => C13_EmailUnique

\* C14: every shop in the directory has a connection string that starts with
\* mongodb:// or mongodb+srv://; a POST /shops or PUT /shops/:id of an
\* administrator whose connection string has another form is answered 400
\* and changes nothing in the directory
C14_StoredUriHasScheme ==
    /\ \A s \in shops : StartsWith(s.mongodbUri, Mongo) \/ StartsWith(s.mongodbUri, MongoSrv)
    /\ \A a \in SessionHolders, u \in BadUris :
          /\ Answer(PostShops(a, [name |-> "Shop", mongodbUri |-> u])) = InvalidShopData
          /\ PostShops(a, [name |-> "Shop", mongodbUri |-> u]).st = St
          /\ \A id \in ShopIds :
                /\ Answer(PutShop(a, id, [mongodbUri |-> u])) = InvalidShopData
                /\ PutShop(a, id, [mongodbUri |-> u]).st = St

\* an administrator's update of an own stored shop was answered 400
C14_Witness ==
    /\ resp.route = "PUT /shops/:id" /\ resp.caller = "admin"
    /\ resp.target = "own" /\ resp.status = 400
    /\ shops # {}

\* ---- C15 ------------------------------------------------------------------
\* scheme://host/dbName?query with a database name, the query optional
HasDbName(uri) ==
    /\ Len(uri) >= 6 /\ uri[5] = "/" /\ uri[6] \notin Separators /\ ~Blank(uri[6])
    /\ Len(uri) > 6 => uri[7] = "?"
\* nothing between the last "/" and the "?" after it, or the end
TrailingSegmentEmpty(uri) ==
    \E i \in DOMAIN uri :
        /\ uri[i] = "/" /\ \A j \in (i + 1)..Len(uri) : uri[j] # "/"
        /\ i = Len(uri) \/ uri[i + 1] = "?"

\* C15: the database name connectToShopDB resolves for scheme://host/dbName?query
\* is dbName; for a string with nothing between its last "/" and the "?" or
\* the end, it is 'test'
C15_ResolvesDbName ==
    \A c \in clients :
        /\ HasDbName(c.uri) => c.db = c.uri[6]
        /\ TrailingSegmentEmpty(c.uri) => c.db = "test"

\* C15, for strings with no "/" in the query: the same
C15_ResolvesWithoutSlashInQuery ==
    \A c \in clients :
        (\A j \in 7..Len(c.uri) : c.uri[j] # "/") =>
            /\ HasDbName(c.uri) => c.db = c.uri[6]
            /\ TrailingSegmentEmpty(c.uri) => c.db = "test"

\* ---- C16 ------------------------------------------------------------------
\* C16: between requests no client of an external store is open: every
\* connection a catalog operation opened was closed when it returned
C16_NoOpenConnections == clients = {}

\* ---- C17 ------------------------------------------------------------------
Unfiltered(uri) == products[uri]
OfCategory(uri, c) == {p \in products[uri] : p.category = c}

\* C17 as stated: with the category omitted or "all" getShopProducts returns
\* what an unfiltered query returns; with any other value, the empty string
\* included, exactly the products of that category
C17_FilterAnyOtherValue ==
    \A uri \in StoreUris, q \in CategoryQueries :
        getShopProducts(uri, q).result =
            IF q = None \/ q = Some("all") THEN Unfiltered(uri) ELSE OfCategory(uri, q[1])

\* C17: with the category omitted, empty or "all" getShopProducts returns what
\* an unfiltered query returns; with any other value exactly the products of
\* that category; GET /shops/:id/products answers the owner with the same
C17_FilterByCategory ==
    /\ \A uri \in StoreUris, q \in CategoryQueries :
          getShopProducts(uri, q).result =
              IF q \in {None, Some(""), Some("all")} THEN Unfiltered(uri)
              ELSE OfCategory(uri, q[1])
    /\ \A a \in SessionHolders : \A s \in shops : \A q \in CategoryQueries :
          s.ownerId = sessions[a[1]] =>
              GetProducts(a, s._id, q).body = getShopProducts(s.mongodbUri, q).result

\* a store holds a product of one category and none of another, and its owner
\* listed the products
C17_Witness ==
    /\ resp.route = "GET /shops/:id/products" /\ resp.status = 200
    /\ resp.caller = "admin" /\ resp.target = "own"
    /\ \E uri \in StoreUris :
          /\ OfCategory(uri, "chains") # {}
          /\ OfCategory(uri, "rings") = {}

\* ---- C18 ------------------------------------------------------------------
Owns(a, s) == a \in SessionHolders /\ s.ownerId = sessions[a[1]]
AllProductIds == UNION {{p._id : p \in products[uri]} : uri \in StoreUris}

\* C18: a valid product posted by the shop's owner is stored with tags = <<>>,
\* featured = false, inStock = true and displayOrder = 0 where the body does
\* not set them and with every supplied field as supplied; the product
\* answered is the stored document, under an id the store had not used
C18_StoredWithDefaults ==
    \A a \in Auths : \A s \in shops : \A b \in ProductBodies \cup {AllFalsy} :
        (Owns(a, s) /\ ValidInsertProduct(b)) =>
            LET o == PostProduct(a, s._id, b)
                uri == s.mongodbUri
            IN  /\ o.status = 201
                /\ o.st.products[uri] = products[uri] \cup {o.body}
                /\ \A other \in StoreUris \ {uri} : o.st.products[other] = products[other]
                /\ o.body._id \notin AllProductIds
                /\ \A f \in DOMAIN b : o.body[f] = b[f]
                /\ "tags" \notin DOMAIN b => o.body.tags = <<>>
                /\ "featured" \notin DOMAIN b => o.body.featured = FALSE
                /\ "inStock" \notin DOMAIN b => o.body.inStock = TRUE
                /\ "displayOrder" \notin DOMAIN b => o.body.displayOrder = 0

\* a product was created from a body that set none of the four fields, and
\* the store holds it with the defaults
C18_Witness ==
    /\ resp.route = "POST /shops/:id/products" /\ resp.status = 201
    /\ \E uri \in StoreUris : \E p \in products[uri] :
          /\ p.tags = <<>> /\ p.featured = FALSE
          /\ p.inStock = TRUE /\ p.displayOrder = 0

\* ---- C19 ------------------------------------------------------------------
Matching(uri, pid) == {p \in products[uri] : p._id = pid}

\* the update answered 200 with the product as it now is: the supplied fields
\* as supplied, every other field as before, no other product and nothing
\* else in the stores touched
ChangedOnlySupplied(o, uri, pid, b) ==
    LET old == CHOOSE p \in Matching(uri, pid) : TRUE
    IN  /\ o.status = 200
        /\ DOMAIN o.body = DOMAIN old \cup DOMAIN b
        /\ \A f \in DOMAIN o.body : o.body[f] = IF f \in DOMAIN b THEN b[f] ELSE old[f]
        /\ o.st.products[uri] = (products[uri] \ {old}) \cup {o.body}
        /\ [o.st EXCEPT !.products[uri] = products[uri]] = St

\* C19 as stated: a valid update by the shop's owner changes exactly the
\* supplied fields of the product the id matches; when the id matches no
\* product, whatever its form, the answer is 404 and the stores are unchanged
C19_NoMatchAlways404 ==
    \A a \in Auths : \A s \in shops : \A pid \in ProductIds, b \in ProductUpdateBodies :
        (Owns(a, s) /\ ValidUpdateProduct(b)) =>
            LET o == PutProduct(a, s._id, pid, b)
            IN  IF Matching(s.mongodbUri, pid) # {}
                THEN ChangedOnlySupplied(o, s.mongodbUri, pid, b)
                ELSE o.status = 404 /\ o.st = St

\* C19: a valid update by the shop's owner changes exactly the supplied fields
\* of the product the id matches; when the id matches no product the answer
\* is 404 for an id of the store's form and 400 for any other, and the stores
\* are unchanged
C19_UpdateChangesSupplied ==
    \A a \in Auths : \A s \in shops : \A pid \in ProductIds, b \in ProductUpdateBodies :
        (Owns(a, s) /\ ValidUpdateProduct(b)) =>
            LET o == PutProduct(a, s._id, pid, b)
            IN  IF Matching(s.mongodbUri, pid) # {}
                THEN ChangedOnlySupplied(o, s.mongodbUri, pid, b)
                ELSE /\ o.status = IF pid = MalformedId THEN 400 ELSE 404
                     /\ o.st = St

\* a product created with the defaults was moved to another category, marked
\* featured and out of stock by an update
C19_Witness ==
    /\ resp.route = "PUT /shops/:id/products/:productId" /\ resp.status = 200
    /\ \E uri \in StoreUris : \E p \in products[uri] :
          /\ p.category = "chains" /\ p.featured = TRUE /\ p.inStock = FALSE
          /\ p.tags = <<>> /\ p.displayOrder = 0 /\ p.price = JNum(90)

\* ---- C20 ------------------------------------------------------------------
Is500(o) == o.status = 500 /\ DOMAIN o.body = {"message"} /\ o.st = St

\* the routes whose catch block answers 500
ReadsAndDeletesAnswer500(a, s) ==
    /\ DirectoryFails =>
          /\ Is500(GetShops(a)) /\ Is500(GetShop(a, s._id)) /\ Is500(DeleteShop(a, s._id))
    /\ (DirectoryFails \/ CategoriesFail(s.mongodbUri)) => Is500(GetCategories(a, s._id))
    /\ (DirectoryFails \/ StoreFails(s.mongodbUri)) =>
          /\ \A q \in CategoryQueries : Is500(GetProducts(a, s._id, q))
          /\ \A p \in products[s.mongodbUri] :
                /\ Is500(GetProduct(a, s._id, p._id))
                /\ Is500(DeleteProduct(a, s._id, p._id))

\* the routes whose catch block answers 400
WritesAnswer500(a, s) ==
    /\ DirectoryFails =>
          /\ \A b \in ShopBodies : ValidInsertShop(b) => Is500(PostShops(a, b))
          /\ \A b \in ShopUpdateBodies : ValidUpdateShop(b) => Is500(PutShop(a, s._id, b))
    /\ (DirectoryFails \/ StoreFails(s.mongodbUri)) =>
          /\ \A b \in ProductBodies :
                ValidInsertProduct(b) => Is500(PostProduct(a, s._id, b))
          /\ \A p \in products[s.mongodbUri] : \A b \in ProductUpdateBodies :
                ValidUpdateProduct(b) => Is500(PutProduct(a, s._id, p._id, b))

\* C20: while the directory store fails, every valid request of an
\* administrator to a shop route, and while it or the shop's external store
\* fails, every valid request to a catalog route of an own shop, is answered
\* 500 with a message and changes nothing
C20_StoreFailureAnswers500 ==
    \A a \in Auths : \A s \in shops :
        Owns(a, s) => ReadsAndDeletesAnswer500(a, s) /\ WritesAnswer500(a, s)

\* C20, for the GET and DELETE routes only: the same
C20_ReadsAndDeletesAnswer500 ==
    \A a \in Auths : \A s \in shops : Owns(a, s) => ReadsAndDeletesAnswer500(a, s)

\* ---- C21 ------------------------------------------------------------------
ShopsOf(who) == {s \in shops : s.ownerId = who}
RECURSIVE Total(_, _)
Total(S, count) ==
    IF S = {} THEN 0
    ELSE LET s == CHOOSE x \in S : TRUE IN count[s] + Total(S \ {s}, count)

\* C21: whatever external stores fail, GET /analytics answers an
\* administrator 200 while the directory store works; totalShops is the number
\* of the caller's shops, and the products and categories of every shop whose
\* store works are counted
C21_AnalyticsSurvivesFailures ==
    \A a \in SessionHolders :
        ~DirectoryFails =>
            LET o == GetAnalytics(a)
                mine == ShopsOf(sessions[a[1]])
                working == {s \in mine : ~StoreFails(s.mongodbUri)
                                            /\ ~CategoriesFail(s.mongodbUri)}
                ProductsIn == [s \in mine |-> Cardinality(products[s.mongodbUri])]
                CategoriesIn == [s \in mine |-> Cardinality(shopCategories(s.mongodbUri))]
            IN  /\ o.status = 200
                /\ o.st = St
                /\ o.body.totalShops = Cardinality(mine)
                /\ o.body.totalProducts >= Total(working, ProductsIn)
                /\ o.body.totalCategories >= Total(working, CategoriesIn)
                /\ working = mine =>
                      /\ o.body.totalProducts = Total(mine, ProductsIn)
                      /\ o.body.totalCategories = Total(mine, CategoriesIn)

\* the analytics answered the administrator with two shops while the store of
\* the shop listed first was out of reach and the other one worked
C21_Witness ==
    /\ resp.route = "GET /analytics" /\ resp.status = 200 /\ resp.caller = "admin"
    /\ failing = Down({U2})
    /\ getAllShops(UserOid(1))[1].mongodbUri = U2
    /\ products[U1] # {}

\* the round trips of one shop after the other, in the order of the list: the
\* shop's products and, unless that failed, its categories
RECURSIVE RoundTrips(_)
RoundTrips(list) ==
    IF list = <<>> THEN <<>>
    ELSE LET uri == Head(list).mongodbUri
         IN  <<Connect(uri, "products")>>
               \o (IF StoreFails(uri) THEN <<>> ELSE <<Connect(uri, "categories")>>)
               \o RoundTrips(Tail(list))

C29_ProductsBeforeCategories ==
    \A a \in SessionHolders :
        ~DirectoryFails =>
            LET o == GetAnalytics(a)
                mine == ShopsOf(sessions[a[1]])
                withProducts == {s \in mine : ~StoreFails(s.mongodbUri)}
                withBoth == {s \in withProducts : ~CategoriesFail(s.mongodbUri)}
                ProductsIn == [s \in mine |-> Cardinality(products[s.mongodbUri])]
                CategoriesIn == [s \in mine |-> Cardinality(shopCategories(s.mongodbUri))]
                recent == o.body.recentShops
            IN  /\ o.status = 200
                /\ \A i \in DOMAIN o.io :
                      (o.io[i].op = "connectToShopDB" /\ o.io[i].coll = "categories") =>
                          /\ i > 1
                          /\ o.io[i - 1] = Connect(o.io[i].uri, "products")
                          /\ ~StoreFails(o.io[i].uri)
                /\ o.body.totalProducts = Total(withProducts, ProductsIn)
                /\ o.body.totalCategories = Total(withBoth, CategoriesIn)
                /\ o.body.uniqueCategories
                      = Cardinality(UNION {{c.name : c \in shopCategories(s.mongodbUri)}
                                              : s \in withBoth})
                /\ o.body.uniqueCategories <= o.body.totalCategories
                /\ Len(recent) <= RecentLimit
                /\ Len(recent) = Cardinality(mine) \/ Len(recent) = RecentLimit
                /\ \A i, j \in DOMAIN recent :
                      i < j => recent[i].createdAt >= recent[j].createdAt /\ recent[i] # recent[j]
                /\ \A i \in DOMAIN recent : recent[i] \in mine
                /\ \A s \in mine : (\A i \in DOMAIN recent : recent[i] # s) =>
                      \A i \in DOMAIN recent : s.createdAt <= recent[i].createdAt

\* the analytics answered the administrator who has six shops while the
\* categories of the store that holds a product could not be fetched and its
\* products could
C29_Witness ==
    /\ resp.route = "GET /analytics" /\ resp.status = 200 /\ resp.caller = "admin"
    /\ failing = {Fault(U1, "categories")}
    /\ Cardinality(ShopsOf(UserOid(1))) = RecentLimit + 1
    /\ products[U1] # {}

\* ---- the session directory ------------------------------------------------
\* every entry of the session directory but those of the tokens in gone is in
\* after as it was before, and no entry for a token in gone is
KeepsAllBut(after, gone) ==
    /\ \A t \in DOMAIN sessions \ gone : t \in DOMAIN after /\ after[t] = sessions[t]
    /\ \A t \in gone : t \notin DOMAIN after

\* C27: a signup or login never removes or changes an entry of the session
\* directory: one answered with a session adds one entry under a token not in
\* use, for an administrator who may hold others already, and any other adds
\* none.  A logout removes the entry of the token presented and no other; the
\* remaining tokens map to the administrators they mapped to.
C27_SessionsOnlyAddedOrLoggedOut ==
    /\ \A b \in SignupBodies :
          LET o == PostSignup(b)
          IN  IF o.status = 201
              THEN /\ KeepsAllBut(o.st.sessions, {})
                   /\ o.body.sessionId \notin DOMAIN sessions
                   /\ DOMAIN o.st.sessions = DOMAIN sessions \cup {o.body.sessionId}
              ELSE o.st.sessions = sessions
    /\ \A b \in LoginBodies :
          LET o == PostLogin(b)
          IN  IF o.status = 200
              THEN /\ KeepsAllBut(o.st.sessions, {})
                   /\ o.body.sessionId \notin DOMAIN sessions
                   /\ DOMAIN o.st.sessions = DOMAIN sessions \cup {o.body.sessionId}
                   /\ o.st.sessions[o.body.sessionId] = o.body.user._id
              ELSE o.st.sessions = sessions
    /\ \A a \in Auths :
          LET o == PostLogout(a)
          IN  IF o.status = 200
              THEN /\ KeepsAllBut(o.st.sessions, {a[1]})
                   /\ DOMAIN o.st.sessions = DOMAIN sessions \ {a[1]}
              ELSE o.st.sessions = sessions
    /\ \A a \in Auths : GetMe(a).st.sessions = sessions

\* an administrator who held two tokens has logged out with one of them and
\* the other one is still in the session directory under their id
C27_Witness ==
    /\ resp.route = "POST /auth/logout" /\ resp.status = 200
    /\ \E r, q \in hist.returned :
          /\ r.email = q.email /\ r.token # q.token
          /\ r.token \in hist.loggedOut
          /\ q.token \in DOMAIN sessions
          /\ sessions[q.token] = q.user._id

\* ---- ids that are not well-formed -----------------------------------------
\* the handler answered with this status and changed nothing
Caught(out, status) == out.status = status /\ out.st = St

\* the product routes with a product id in the path, for a product id that
\* is not well-formed
OnMalformedProduct(a, id) ==
    [get |-> GetProduct(a, id, MalformedId),
     put |-> [b \in ProductUpdateBodies |-> PutProduct(a, id, MalformedId, b)],
     delete |-> DeleteProduct(a, id, MalformedId)]

\* C28 as stated: no request with a shop id or a product id that is not
\* well-formed is answered 404.
C28_MalformedIdNever404 ==
    \A a \in SessionHolders : \A id \in ShopIds :
        LET o == OnMalformedProduct(a, id)
        IN  /\ o.get.status # 404 /\ o.delete.status # 404
            /\ \A b \in ProductUpdateBodies : o.put[b].status # 404

\* C28 amended: with a shop id that is not well-formed, GET and DELETE
\* /shops/:id and the catalog GET and DELETE routes answer 500, PUT /shops/:id
\* and product POST and PUT answer 400.  With a product id that is not
\* well-formed under a well-formed shop id, the shop lookup comes first: 404
\* when the id names no shop of the caller, else 500 for GET and DELETE and
\* 400 for PUT.  No such request changes a stored shop or product.
C28_MalformedIdCaught ==
    \A a \in SessionHolders :
        /\ Caught(GetShop(a, MalformedId), 500)
        /\ Caught(DeleteShop(a, MalformedId), 500)
        /\ \A b \in ShopUpdateBodies : Caught(PutShop(a, MalformedId, b), 400)
        /\ Caught(GetCategories(a, MalformedId), 500)
        /\ \A q \in CategoryQueries : Caught(GetProducts(a, MalformedId, q), 500)
        /\ \A b \in ProductBodies : Caught(PostProduct(a, MalformedId, b), 400)
        /\ \A pid \in ProductIds :
              /\ Caught(GetProduct(a, MalformedId, pid), 500)
              /\ Caught(DeleteProduct(a, MalformedId, pid), 500)
              /\ \A b \in ProductUpdateBodies :
                    Caught(PutProduct(a, MalformedId, pid, b), 400)
        /\ \A id \in ShopIds \ {MalformedId} :
              LET o == OnMalformedProduct(a, id)
                  own == \E s \in shops : s._id = id /\ Owns(a, s)
              IN  /\ Caught(o.get, IF own THEN 500 ELSE 404)
                  /\ Caught(o.delete, IF own THEN 500 ELSE 404)
                  /\ \A b \in ProductUpdateBodies :
                        Caught(o.put[b], IF own THEN 400 ELSE 404)

\* a product of the caller's own shop was asked for by an id that is not
\* well-formed and the answer was 500; the product is still stored
C28_Witness ==
    /\ resp.route = "GET /shops/:id/products/:productId"
    /\ resp.caller = "admin" /\ resp.target = "own" /\ resp.status = 500
    /\ failing = {}
    /\ RingStored \in products[U1]

\* ---- which store a product request touches --------------------------------
\* the database a connection string of the form scheme://host/dbName?query
\* addresses, and the one the connector opens for it
AddressedStore(uri) == [host |-> uri[4], db |-> uri[6]]
OpenedStore(uri) == [host |-> uri[4], db |-> connectToShopDB(uri).db]

\* the request left the directory store and the session directory alone, and
\* every external store but those in allowed
LeavesAllBut(out, allowed) ==
    /\ out.st.users = users /\ out.st.shops = shops /\ out.st.nextShop = nextShop
    /\ out.st.sessions = sessions
    /\ \A other \in StoreUris \ allowed : out.st.products[other] = products[other]
    /\ \A i \in DOMAIN out.io :
          \/ out.io[i].op = "shops.findOne"
          \/ out.io[i].op = "connectToShopDB" /\ StoreOf(out.io[i].uri) \in allowed

\* the product writes an administrator can make through a shop
ProductWrites(a, s) ==
    {PostProduct(a, s._id, b) : b \in ProductBodies}
      \cup {DeleteProduct(a, s._id, pid) : pid \in ProductIds}
      \cup {PutProduct(a, s._id, pid, b) : pid \in ProductIds, b \in ProductUpdateBodies}

\* deleting a shop leaves every external store as it was and connects to none
DeleteShopLeavesStores ==
    \A a \in SessionHolders : \A s \in {t \in shops : Owns(a, t)} :
        LET o == DeleteShop(a, s._id)
        IN  /\ o.status = 200
            /\ o.st.products = products
            /\ \A i \in DOMAIN o.io : o.io[i].op = "shops.deleteOne"

\* shops that store the same connection string read the same products, and a
\* product created through one is stored where the other reads
SameStringSameProducts ==
    \A a \in SessionHolders : \A s \in {t \in shops : Owns(a, t)}, u \in shops :
        s.mongodbUri = u.mongodbUri =>
           /\ \A q \in CategoryQueries :
                 /\ GetProducts(a, s._id, q).status = 200
                 /\ GetProducts(a, s._id, q).body
                       = getShopProducts(u.mongodbUri, q).result
                 /\ \A c \in SessionHolders :
                       Owns(c, u) => GetProducts(c, u._id, q).body
                                       = GetProducts(a, s._id, q).body
           /\ \A b \in ProductBodies :
                 LET o == PostProduct(a, s._id, b)
                 IN  o.status = 201 =>
                       \E p \in o.st.products[StoreOf(u.mongodbUri)] : p._id = o.body._id

\* C30: a product create, update or delete through a shop of the caller
\* touches only the external store that the shop's stored connection string
\* addresses: the directory store and every external store addressed by
\* another string are as before.  Deleting a shop leaves every external store
\* as it was.  Shops that store the same connection string, of one
\* administrator or of two, operate on the same products.
C30_OnlyTheAddressedStore ==
    /\ \A a \in SessionHolders : \A s \in {t \in shops : Owns(a, t)} :
          \A o \in ProductWrites(a, s) :
              LeavesAllBut(o, {u \in StoreUris :
                                  AddressedStore(u) = AddressedStore(s.mongodbUri)})
    /\ DeleteShopLeavesStores
    /\ SameStringSameProducts

\* the same with the store the connector opens for the string in place of
\* the store the string addresses
C30_OnlyTheOpenedStore ==
    /\ \A a \in SessionHolders : \A s \in {t \in shops : Owns(a, t)} :
          \A o \in ProductWrites(a, s) :
              LeavesAllBut(o, {u \in StoreUris :
                                  OpenedStore(u) = OpenedStore(s.mongodbUri)})
    /\ DeleteShopLeavesStores
    /\ SameStringSameProducts

\* ---- editing a shop ------------------------------------------------------
\* C23: a PUT /shops/:id answered 200 replaces the caller's shop of that id by
\* a record in which the supplied fields of the update schema have the
\* supplied values and updatedAt is the time of the request; _id, ownerId,
\* createdAt and every other field are as before; updatedAt is not earlier
\* than it was; no other shop and nothing else in the stores changes.
C23_UpdateShopFrame ==
    \A a \in SessionHolders : \A id \in ShopIds, b \in ShopUpdateBodies :
        LET out == PutShop(a, id, b)
            supplied == DOMAIN b \cap InsertShopKeys
        IN  out.status = 200 =>
              \E old \in shops :
                /\ old._id = id /\ old.ownerId = sessions[a[1]]
                /\ out.st = [St EXCEPT !.shops = (shops \ {old}) \cup {out.body}]
                /\ DOMAIN out.body = DOMAIN old \cup supplied
                /\ \A f \in supplied : out.body[f] = b[f]
                /\ \A f \in DOMAIN old \ (supplied \cup {"updatedAt"}) :
                      out.body[f] = old[f]
                /\ out.body._id = old._id
                /\ out.body.ownerId = old.ownerId
                /\ out.body.createdAt = old.createdAt
                /\ out.body.updatedAt = now
                /\ out.body.updatedAt >= old.updatedAt

\* an hour after it was registered, the shop of the first administrator was
\* renamed by a body that also named _id, ownerId and createdAt
C23_Witness ==
    /\ resp.route = "PUT /shops/:id" /\ resp.status = 200
    /\ now = CACHE_DURATION
    /\ \E s \in shops :
          /\ s._id = ShopOfAlice._id /\ s.ownerId = ShopOfAlice.ownerId
          /\ s.name = Takeover.name /\ s.mongodbUri = ShopOfAlice.mongodbUri
          /\ s.createdAt = 0 /\ s.updatedAt = now
    /\ ShopOfBob \in shops

\* ---- bodies that fail validation -----------------------------------------
\* the request is answered 400 with this message, changes nothing and
\* contacts no store
Refused(out, msg) ==
    out.status = 400 /\ out.body = Msg(msg) /\ out.st = St /\ out.io = <<>>

\* the same, but for the lookup of the shop in the directory store
RefusedAfterLookup(out, msg) ==
    /\ out.status = 400 /\ out.body = Msg(msg) /\ out.st = St
    /\ \A i \in DOMAIN out.io : out.io[i].op = "shops.findOne"

InvalidProductRequests(a) ==
    {Req(a, id, pid, b) : id \in ShopIds, pid \in {NoParam}, b \in {x \in ProductBodies : ~ValidInsertProduct(x)}}
      \cup {Req(a, id, pid, b) : id \in ShopIds, pid \in ProductIds,
                                b \in {x \in ProductUpdateBodies : ~ValidUpdateProduct(x)}}

ProductWrite(r) ==
    IF r.pid = NoParam THEN PostProduct(r.auth, r.id, r.body)
    ELSE PutProduct(r.auth, r.id, r.pid, r.body)

====
